---- MODULE Spec2Model ----
(***************************************************************************)
(* A model of serverless-plugin-existing-cloudfront-lambda-edge            *)
(* (src/src/index.js): the association validator, the behavior merger and  *)
(* the deployment waiter / distribution updater.                           *)
(*                                                                         *)
(* The module holds these specifications over one set of variables:        *)
(*   SpecMerge     _modifyDistributionConfigIfNeeded called twice on one   *)
(*                 distribution configuration with one desired list;       *)
(*   SpecQuantity  the same on configurations with any declared count;     *)
(*   SpecValidate  _modifyLambdaFunctions on a declaration map;            *)
(*   SpecStrip     the packaging hook and then the deploy hook;            *)
(*   SpecRole      _modifyExecutionRole on the compiled template;          *)
(*   SpecPass      _updateDistributionsAsNecessary over a resolved         *)
(*                 mapping, with the waiter, its timer and the backend;    *)
(*   SpecResolve   _onBeforeDeployFinalize with its two resolvers,         *)
(*                 _getFunctionsToAssociate and                            *)
(*                 _getDistributionPhysicalIDs, against a deployed stack;  *)
(*   SpecReconcile the resolvers followed by the loop: a whole pass;       *)
(*   SpecRetry     a whole pass and its repetition in a new process.       *)
(* Each specification leaves the variables of the others at their idle     *)
(* values.                                                                 *)
(***************************************************************************)
EXTENDS Integers, Sequences, FiniteSets, TLC

VARIABLES
    \* ---- behavior merger (SpecMerge)
    distConfig,     \* the DistributionConfig object being merged into
    fns,            \* the desired bindings, [eventType, fnARN], in order
    changed,        \* what each call returned, in call order
    origConfig,     \* distConfig before the first call
    firstConfig,    \* distConfig as the first call left it
    mergeLog,       \* cli.log notices of the calls so far
    writes,         \* per call, per behavior: number of list mutations
    \* ---- association validator (SpecValidate)
    functions,      \* serverless.service.functions, in key order
    template,       \* compiledCloudFormationTemplate.Resources
    pendingAssociations, \* this._pendingAssociations
    thrown,         \* the Error _modifyLambdaFunctions threw, or NoError
    validateLog,    \* cli.log notices of the validator
    vpc,            \* "ready" before the call, "done" after
    \* ---- deployment waiter and distribution updater (SpecPass)
    dists,          \* the resolved mapping, in key order: [key, distributionID, distLogicalName]
    fnsByDist,      \* distLogicalName -> desired bindings (the updater's fns)
    backend,        \* CloudFront: distribution id -> [Status, DistributionConfig, ETag]
    distIdIsWaiting,          \* this._distIdIsWaiting
    alreadyWaitingForUpdates, \* this._alreadyWaitingForUpdates
    distIndex,      \* position of the for loop of _updateDistributionsAsNecessary
    pc,             \* where the pass stands
    data,           \* the updater's data (a response, or NoData for undefined)
    waiter,         \* the closure of the current _waitForDistributionDeployed call
    waitCalls,      \* the calls of _waitForDistributionDeployed so far: [Id, name]
    clients,        \* number of CloudFront clients constructed
    requests,       \* the backend requests issued so far, in order
    cliLog,         \* what serverless.cli was told, in order
    rejection,      \* the error the pass rejected with, or NoError
    \* ---- the resolvers of _onBeforeDeployFinalize (SpecResolve)
    stack,          \* CloudFormation: [Stacks, StackResources] of the responses
    fnsPromise,     \* the promise of _getFunctionsToAssociate
    distsPromise,   \* the promise of _getDistributionPhysicalIDs
    rpc,            \* where _onBeforeDeployFinalize stands
    \* ---- the execution role (SpecRole)
    role,           \* Resources.IamRoleLambdaExecution of the template
    roleLog,        \* per call of _modifyExecutionRole: what it logged
    \* ---- the process (SpecRetry)
    run             \* 1 in the first process, 2 in the one that deploys again

mergeVars == <<distConfig, fns, changed, origConfig, firstConfig, mergeLog, writes>>
validateVars == <<functions, template, pendingAssociations, thrown, validateLog, vpc>>
passVars == <<dists, fnsByDist, backend, distIdIsWaiting, alreadyWaitingForUpdates,
              distIndex, pc, data, waiter, waitCalls, clients, requests, cliLog,
              rejection>>
resolveVars == <<stack, fnsPromise, distsPromise, rpc>>
roleVars == <<role, roleLog>>
vars == <<mergeVars, validateVars, passVars, resolveVars, roleVars, run>>

\* JavaScript's null / undefined for an optional string field.
null == "null"

\* this._pendingAssociations before _modifyLambdaFunctions first assigns it
\* (the constructor does not set it).
undefined == <<[undefined |-> TRUE]>>

\* No Error thrown.
NoError == [kind |-> "none", msg |-> "", value |-> null]

(***************************************************************************)
(* Bounds of the model.                                                    *)
(***************************************************************************)
MaxItems == 2       \* existing bindings per behavior
MaxFns == 2         \* desired bindings per distribution
MaxBehaviors == 1   \* additional cache behaviors per distribution
MaxFunctions == 2   \* declared functions in serverless.service.functions
MaxPending == 2     \* pending associations of a reconcile pass
MaxDots == 2        \* progress dots of one wait

VALID_EVENT_TYPES ==
    <<"viewer-request", "origin-request", "viewer-response", "origin-response">>

ValidEventTypeSet == {VALID_EVENT_TYPES[i] : i \in 1..Len(VALID_EVENT_TYPES)}

\* Event types and function addresses the merger's inputs are drawn from.
MergeEventTypes == {"viewer-request", "origin-response"}
ARNs == {"fn1", "fn2"}

SeqsUpTo(S, n) == UNION {[1..k -> S] : k \in 0..n}

(***************************************************************************)
(* The behavior merger.                                                    *)
(***************************************************************************)

\* _.find(items, {EventType: evt}): the index of the first match, 0 if none.
FindIndex(items, evt) ==
    IF \E i \in 1..Len(items) : items[i].EventType = evt
    THEN CHOOSE i \in 1..Len(items) :
            /\ items[i].EventType = evt
            /\ \A j \in 1..(i - 1) : items[j].EventType # evt
    ELSE 0

\* AssociateOne with the new binding put in front of the list (unshift for
\* push).
AssociateOnePrepend(acc, fn) ==
    LET existing == FindIndex(acc.Items, fn.eventType) IN
    IF existing = 0
    THEN [acc EXCEPT !.Items = <<[EventType |-> fn.eventType,
                                  LambdaFunctionARN |-> fn.fnARN]>> \o acc.Items,
                     !.changed = TRUE, !.writes = acc.writes + 1]
    ELSE IF acc.Items[existing].LambdaFunctionARN # fn.fnARN
    THEN [acc EXCEPT !.Items[existing].LambdaFunctionARN = fn.fnARN,
                     !.changed = TRUE, !.writes = acc.writes + 1]
    ELSE acc

\* AssociateOne with the overwrite done as remove-and-append.
AssociateOneMoveToEnd(acc, fn) ==
    LET existing == FindIndex(acc.Items, fn.eventType)
        new == [EventType |-> fn.eventType, LambdaFunctionARN |-> fn.fnARN] IN
    IF existing = 0
    THEN [acc EXCEPT !.Items = Append(acc.Items, new),
                     !.changed = TRUE, !.writes = acc.writes + 1]
    ELSE IF acc.Items[existing].LambdaFunctionARN # fn.fnARN
    THEN [acc EXCEPT !.Items = Append(SubSeq(acc.Items, 1, existing - 1)
                                      \o SubSeq(acc.Items, existing + 1, Len(acc.Items)),
                                      new),
                     !.changed = TRUE, !.writes = acc.writes + 1]
    ELSE acc

\* AssociateOne with the overwrite done as a push of a second binding.
AssociateOnePushAgain(acc, fn) ==
    LET existing == FindIndex(acc.Items, fn.eventType)
        new == [EventType |-> fn.eventType, LambdaFunctionARN |-> fn.fnARN] IN
    IF existing = 0 \/ acc.Items[existing].LambdaFunctionARN # fn.fnARN
    THEN [acc EXCEPT !.Items = Append(acc.Items, new),
                     !.changed = TRUE, !.writes = acc.writes + 1]
    ELSE acc

\* One iteration of fns.forEach in _associateFunctionsToBehavior, on the
\* accumulator [Items, changed, log, writes].
AssociateOne(acc, fn) ==
    LET existing == FindIndex(acc.Items, fn.eventType) IN
    IF existing = 0
    THEN [Items   |-> Append(acc.Items,
                        [EventType |-> fn.eventType, LambdaFunctionARN |-> fn.fnARN]),
          changed |-> TRUE,
          log     |-> Append(acc.log,
                        [msg |-> "Adding new Lamba@Edge association",
                         eventType |-> fn.eventType, fnARN |-> fn.fnARN]),
          writes  |-> acc.writes + 1]
    ELSE IF acc.Items[existing].LambdaFunctionARN # fn.fnARN
    THEN [Items   |-> [acc.Items EXCEPT ![existing].LambdaFunctionARN = fn.fnARN],
          changed |-> TRUE,
          log     |-> Append(acc.log,
                        [msg |-> "Updating",
                         eventType |-> fn.eventType, fnARN |-> fn.fnARN]),
          writes  |-> acc.writes + 1]
    ELSE acc

RECURSIVE ForEachFn(_, _, _)
ForEachFn(acc, fs, i) ==
    IF i > Len(fs) THEN acc ELSE ForEachFn(AssociateOne(acc, fs[i]), fs, i + 1)

\* _associateFunctionsToBehavior leaving Quantity as it found it.
associateFunctionsToBehaviorKeepQuantity(beh, fs) ==
    LET r == ForEachFn([Items |-> beh.Items, changed |-> FALSE,
                        log |-> <<>>, writes |-> 0], fs, 1) IN
    [beh     |-> [Items |-> r.Items, Quantity |-> beh.Quantity],
     changed |-> r.changed,
     log     |-> r.log,
     writes  |-> r.writes]

\* _associateFunctionsToBehavior(beh, fns): the behavior as the call leaves
\* it, what it returns, what it logged and how often it wrote the list.
associateFunctionsToBehavior(beh, fs) ==
    LET r == ForEachFn([Items |-> beh.Items, changed |-> FALSE,
                        log |-> <<>>, writes |-> 0], fs, 1) IN
    [beh     |-> [Items    |-> r.Items,
                  Quantity |-> IF r.changed THEN Len(r.Items) ELSE beh.Quantity],
     changed |-> r.changed,
     log     |-> r.log,
     writes  |-> r.writes]

RECURSIVE ConcatLogs(_, _)
ConcatLogs(rs, i) ==
    IF i > Len(rs) THEN <<>> ELSE rs[i].log \o ConcatLogs(rs, i + 1)

\* _modifyDistributionConfigIfNeeded with the disjunction short-circuited
\* (changed = changed || associate(beh, fns)): once a behavior has reported
\* a change the behaviors after it are not merged.
RECURSIVE EachBehaviorShortCircuit(_, _, _, _)
EachBehaviorShortCircuit(acc, behs, fs, i) ==
    IF i > Len(behs) THEN acc
    ELSE IF acc.changed
    THEN EachBehaviorShortCircuit(
            [acc EXCEPT !.behs = Append(acc.behs, behs[i]),
                        !.writes = Append(acc.writes, 0)], behs, fs, i + 1)
    ELSE LET r == associateFunctionsToBehavior(behs[i], fs) IN
         EachBehaviorShortCircuit(
            [behs |-> Append(acc.behs, r.beh), changed |-> r.changed,
             log |-> acc.log \o r.log, writes |-> Append(acc.writes, r.writes)],
            behs, fs, i + 1)

modifyDistributionConfigShortCircuit(cfg, fs) ==
    LET d == associateFunctionsToBehavior(cfg.DefaultCacheBehavior, fs)
        r == EachBehaviorShortCircuit(
                [behs |-> <<>>, changed |-> d.changed, log |-> d.log,
                 writes |-> <<d.writes>>], cfg.CacheBehaviors, fs, 1)
    IN
    [config  |-> [DefaultCacheBehavior |-> d.beh, CacheBehaviors |-> r.behs],
     changed |-> r.changed,
     log     |-> r.log,
     writes  |-> r.writes]

\* _modifyDistributionConfigIfNeeded reporting a change whatever it did.
modifyDistributionConfigAlwaysChanged(cfg, fs) ==
    [config |-> cfg, changed |-> TRUE, log |-> <<>>, writes |-> <<>>]

\* _modifyDistributionConfigIfNeeded(distConfig, fns): the default behavior
\* first, then every additional behavior; changed is the disjunction.
modifyDistributionConfigIfNeeded(cfg, fs) ==
    LET d  == associateFunctionsToBehavior(cfg.DefaultCacheBehavior, fs)
        rs == [i \in 1..Len(cfg.CacheBehaviors) |->
                  associateFunctionsToBehavior(cfg.CacheBehaviors[i], fs)]
    IN
    [config  |-> [DefaultCacheBehavior |-> d.beh,
                  CacheBehaviors |-> [i \in 1..Len(rs) |-> rs[i].beh]],
     changed |-> d.changed \/ \E i \in 1..Len(rs) : rs[i].changed,
     log     |-> d.log \o ConcatLogs(rs, 1),
     writes  |-> <<d.writes>> \o [i \in 1..Len(rs) |-> rs[i].writes]]

(***************************************************************************)
(* Inputs of the merger: configurations as the backend returns them (one   *)
(* binding per event type in a behavior, Quantity equal to the list        *)
(* length) and desired lists as _getFunctionsToAssociate builds them (an   *)
(* event type may repeat: two functions declared for one distribution).    *)
(***************************************************************************)
Bindings == [EventType : MergeEventTypes, LambdaFunctionARN : ARNs]

UniqueTypes(items) ==
    \A i, j \in 1..Len(items) : i # j => items[i].EventType # items[j].EventType

BehaviorOf(items) == [Items |-> items, Quantity |-> Len(items)]

Behaviors == {BehaviorOf(items) : items \in {s \in SeqsUpTo(Bindings, MaxItems) : UniqueTypes(s)}}

DistConfigs ==
    [DefaultCacheBehavior : Behaviors, CacheBehaviors : SeqsUpTo(Behaviors, MaxBehaviors)]

DesiredLists == SeqsUpTo([eventType : MergeEventTypes, fnARN : ARNs], MaxFns)

\* The behaviors of a configuration as one list: default first.
AllBehaviors(cfg) == <<cfg.DefaultCacheBehavior>> \o cfg.CacheBehaviors

EmptyConfig == [DefaultCacheBehavior |-> BehaviorOf(<<>>), CacheBehaviors |-> <<>>]

\* data when the waiter returned nothing (undefined).
NoData == [defined |-> FALSE, Status |-> null, DistributionConfig |-> EmptyConfig, ETag |-> 0]

\* No _waitForDistributionDeployed call has got past its guard.
NoWaiter ==
    [Id |-> null, name |-> null, dotPrinted |-> FALSE, running |-> FALSE,
     timer |-> FALSE, dots |-> 0, outstanding |-> FALSE, err |-> NoError]

IdleMerge ==
    /\ distConfig = EmptyConfig
    /\ fns = <<>>
    /\ changed = <<>>
    /\ origConfig = EmptyConfig
    /\ firstConfig = EmptyConfig
    /\ mergeLog = <<>>
    /\ writes = <<>>

IdlePass ==
    /\ dists = <<>>
    /\ fnsByDist = <<>>
    /\ backend = <<>>
    /\ distIdIsWaiting = null
    /\ alreadyWaitingForUpdates = {}
    /\ distIndex = 1
    /\ pc = "idle"
    /\ data = NoData
    /\ waiter = NoWaiter
    /\ waitCalls = <<>>
    /\ clients = 0
    /\ requests = <<>>
    /\ cliLog = <<>>
    /\ rejection = NoError

\* A promise not created yet.
NoPromise == [state |-> "none", value |-> <<>>, error |-> NoError]

IdleResolve ==
    /\ stack = [Stacks |-> <<>>, StackResources |-> <<>>]
    /\ fnsPromise = NoPromise
    /\ distsPromise = NoPromise
    /\ rpc = "idle"

\* A template without the execution role.
NoRole == [defined |-> FALSE, Statement |-> <<>>, policyStatements |-> 0]

IdleRole ==
    /\ role = NoRole
    /\ roleLog = <<>>
    /\ run = 1

IdleValidate ==
    /\ functions = <<>>
    /\ template = [Resources |-> <<>>]
    /\ pendingAssociations = undefined
    /\ thrown = NoError
    /\ validateLog = <<>>
    /\ vpc = "idle"

InitMerge ==
    /\ distConfig \in DistConfigs
    /\ fns \in DesiredLists
    /\ changed = <<>>
    /\ origConfig = distConfig
    /\ firstConfig = distConfig
    /\ mergeLog = <<>>
    /\ writes = <<>>
    /\ IdleValidate
    /\ IdlePass
    /\ IdleResolve
    /\ IdleRole

\* One call of _modifyDistributionConfigIfNeeded(distConfig, fns).
ModifyDistributionConfigIfNeeded ==
    /\ Len(changed) < 2
    /\ LET r == modifyDistributionConfigIfNeeded(distConfig, fns) IN
        /\ distConfig' = r.config
        /\ changed' = Append(changed, r.changed)
        /\ firstConfig' = IF Len(changed) = 0 THEN r.config ELSE firstConfig
        /\ mergeLog' = mergeLog \o r.log
        /\ writes' = Append(writes, r.writes)
    /\ UNCHANGED <<fns, origConfig>>
    /\ UNCHANGED <<validateVars, passVars, resolveVars, roleVars, run>>

NextMerge == ModifyDistributionConfigIfNeeded

SpecMerge == InitMerge /\ [][NextMerge]_vars

(***************************************************************************)
(* The merger on configurations whose declared counts need not match the   *)
(* lists: any count for the default behavior, and additional behaviors of  *)
(* at most one binding with a count of 0 or 1.                             *)
(***************************************************************************)
UniqueLists == {s \in SeqsUpTo(Bindings, MaxItems) : UniqueTypes(s)}

CountedBehaviors ==
    {[Items |-> items, Quantity |-> q] : items \in UniqueLists, q \in 0..(MaxItems + 1)}

ShortBehaviors ==
    {[Items |-> items, Quantity |-> q] :
        items \in {<<>>, <<[EventType |-> "viewer-request", LambdaFunctionARN |-> "fn1"]>>},
        q \in 0..1}

CountedConfigs ==
    [DefaultCacheBehavior : CountedBehaviors,
     CacheBehaviors : SeqsUpTo(ShortBehaviors, MaxBehaviors)]

InitQuantity ==
    /\ distConfig \in CountedConfigs
    /\ fns \in DesiredLists
    /\ changed = <<>>
    /\ origConfig = distConfig
    /\ firstConfig = distConfig
    /\ mergeLog = <<>>
    /\ writes = <<>>
    /\ IdleValidate
    /\ IdlePass
    /\ IdleResolve
    /\ IdleRole

SpecQuantity == InitQuantity /\ [][NextMerge]_vars

(***************************************************************************)
(* The association validator: _modifyLambdaFunctions(functions, template). *)
(***************************************************************************)

\* The keys of serverless.service.functions, in declaration order.
FunctionNames == <<"someFn", "otherFn", "thirdFn", "fourthFn">>

\* provider.naming of the host framework (an injective renaming of keys).
getLambdaLogicalId(fnName) ==
    [someFn |-> "SomeFnLambdaFunction", otherFn |-> "OtherFnLambdaFunction",
     thirdFn |-> "ThirdFnLambdaFunction", fourthFn |-> "FourthFnLambdaFunction"][fnName]

getLambdaVersionOutputLogicalId(fnName) ==
    [someFn |-> "SomeFnLambdaFunctionQualifiedArn",
     otherFn |-> "OtherFnLambdaFunctionQualifiedArn",
     thirdFn |-> "ThirdFnLambdaFunctionQualifiedArn",
     fourthFn |-> "FourthFnLambdaFunctionQualifiedArn"][fnName]

DISTRIBUTION_TYPE == "AWS::CloudFront::Distribution"

\* Properties.Environment of a function resource: absent, or present with
\* or without a Variables object (nVariables keys).
NoEnvironment == [defined |-> FALSE, hasVariables |-> FALSE, nVariables |-> 0]
Environments ==
    {NoEnvironment,
     [defined |-> TRUE, hasVariables |-> TRUE, nVariables |-> 2]}

\* A declaration without a lambdaAtEdge object.
NoLambdaAtEdge ==
    [defined |-> FALSE, distributionID |-> null, distribution |-> null,
     eventType |-> null]

\* The lambdaAtEdge objects of the declarations: any of the four event types
\* or an unknown one; with or without a distributionID; no distribution, one
\* that names a distribution resource of the template, one that names a
\* resource of another type, or one that names no resource.
LambdaAtEdges ==
    [defined : {TRUE},
     distributionID : {null, "123ABC"},
     distribution : {null, "WebDist", "SomeRes", "not-existing"},
     eventType : ValidEventTypeSet \cup {"wrong-event"}]

FnDefs == [lambdaAtEdge : LambdaAtEdges \cup {NoLambdaAtEdge}, environment : Environments]

\* The compiled template of a declaration list: the two resources a
\* declaration may name and one Lambda resource per declared function.
TemplateOf(defs) ==
    [Resources |->
        [n \in {"WebDist", "SomeRes"}
               \cup {getLambdaLogicalId(FunctionNames[i]) : i \in 1..Len(defs)} |->
            IF n = "WebDist"
            THEN [Type |-> DISTRIBUTION_TYPE, Properties |-> [Environment |-> NoEnvironment]]
            ELSE IF n = "SomeRes"
            THEN [Type |-> "AWS::S3::Bucket", Properties |-> [Environment |-> NoEnvironment]]
            ELSE [Type |-> "AWS::Lambda::Function",
                  Properties |->
                     [Environment |->
                        defs[CHOOSE i \in 1..Len(defs) :
                                getLambdaLogicalId(FunctionNames[i]) = n].environment]]]]

FunctionsOf(defs) ==
    [i \in 1..Len(defs) |-> [name |-> FunctionNames[i], lambdaAtEdge |-> defs[i].lambdaAtEdge]]

\* CheckDeclaration with the event type checked after the distribution
\* reference instead of before it.
CheckDeclarationEventTypeLast(fnDef, tmpl) ==
    LET distId   == fnDef.lambdaAtEdge.distributionID
        distName == fnDef.lambdaAtEdge.distribution
        evtType  == fnDef.lambdaAtEdge.eventType
        hasDist  == distName \in DOMAIN tmpl.Resources
    IN
    IF ~hasDist /\ distId = null
    THEN [kind |-> "MissingDistributionReference",
          msg |-> "Could not find resource with logical name", value |-> distName]
    ELSE IF distName = null /\ distId # null
    THEN [kind |-> "IncompleteDistributionReference",
          msg |-> "requires a distribution to be set", value |-> distId]
    ELSE IF distId = null /\ tmpl.Resources[distName].Type # DISTRIBUTION_TYPE
    THEN [kind |-> "WrongResourceType",
          msg |-> "is not type AWS::CloudFront::Distribution", value |-> distName]
    ELSE IF evtType \notin ValidEventTypeSet
    THEN [kind |-> "InvalidEventType",
          msg |-> "is not a valid event type, must be one of", value |-> evtType]
    ELSE NoError

\* CheckDeclaration without the check that a distributionID comes with a
\* distribution.
CheckDeclarationIdAlone(fnDef, tmpl) ==
    LET distId   == fnDef.lambdaAtEdge.distributionID
        distName == fnDef.lambdaAtEdge.distribution
        evtType  == fnDef.lambdaAtEdge.eventType
        hasDist  == distName \in DOMAIN tmpl.Resources
    IN
    IF evtType \notin ValidEventTypeSet
    THEN [kind |-> "InvalidEventType",
          msg |-> "is not a valid event type, must be one of", value |-> evtType]
    ELSE IF ~hasDist /\ distId = null
    THEN [kind |-> "MissingDistributionReference",
          msg |-> "Could not find resource with logical name", value |-> distName]
    ELSE IF distId = null /\ tmpl.Resources[distName].Type # DISTRIBUTION_TYPE
    THEN [kind |-> "WrongResourceType",
          msg |-> "is not type AWS::CloudFront::Distribution", value |-> distName]
    ELSE NoError

\* CheckDeclaration with the missing-reference check on the declared name
\* only (!distName for !dist): a name that resolves to no resource passes.
CheckDeclarationNameOnly(fnDef, tmpl) ==
    LET distId   == fnDef.lambdaAtEdge.distributionID
        distName == fnDef.lambdaAtEdge.distribution
        evtType  == fnDef.lambdaAtEdge.eventType
        hasDist  == distName \in DOMAIN tmpl.Resources
    IN
    IF evtType \notin ValidEventTypeSet
    THEN [kind |-> "InvalidEventType",
          msg |-> "is not a valid event type, must be one of", value |-> evtType]
    ELSE IF distName = null /\ distId = null
    THEN [kind |-> "MissingDistributionReference",
          msg |-> "Could not find resource with logical name", value |-> distName]
    ELSE IF distName = null /\ distId # null
    THEN [kind |-> "IncompleteDistributionReference",
          msg |-> "requires a distribution to be set", value |-> distId]
    ELSE IF distId = null /\ hasDist /\ tmpl.Resources[distName].Type # DISTRIBUTION_TYPE
    THEN [kind |-> "WrongResourceType",
          msg |-> "is not type AWS::CloudFront::Distribution", value |-> distName]
    ELSE NoError

\* CheckDeclaration without the resource-type check.
CheckDeclarationAnyType(fnDef, tmpl) ==
    LET distId   == fnDef.lambdaAtEdge.distributionID
        distName == fnDef.lambdaAtEdge.distribution
        evtType  == fnDef.lambdaAtEdge.eventType
        hasDist  == distName \in DOMAIN tmpl.Resources
    IN
    IF evtType \notin ValidEventTypeSet
    THEN [kind |-> "InvalidEventType",
          msg |-> "is not a valid event type, must be one of", value |-> evtType]
    ELSE IF ~hasDist /\ distId = null
    THEN [kind |-> "MissingDistributionReference",
          msg |-> "Could not find resource with logical name", value |-> distName]
    ELSE IF distName = null /\ distId # null
    THEN [kind |-> "IncompleteDistributionReference",
          msg |-> "requires a distribution to be set", value |-> distId]
    ELSE NoError

\* The checks of the reduce callback on one declaration, in the code's
\* order: the Error it throws, or NoError.
CheckDeclaration(fnDef, tmpl) ==
    LET distId   == fnDef.lambdaAtEdge.distributionID
        distName == fnDef.lambdaAtEdge.distribution
        evtType  == fnDef.lambdaAtEdge.eventType
        hasDist  == distName \in DOMAIN tmpl.Resources
    IN
    IF evtType \notin ValidEventTypeSet
    THEN [kind |-> "InvalidEventType",
          msg |-> "is not a valid event type, must be one of", value |-> evtType]
    ELSE IF ~hasDist /\ distId = null
    THEN [kind |-> "MissingDistributionReference",
          msg |-> "Could not find resource with logical name", value |-> distName]
    ELSE IF distName = null /\ distId # null
    THEN [kind |-> "IncompleteDistributionReference",
          msg |-> "requires a distribution to be set", value |-> distId]
    ELSE IF distId = null /\ tmpl.Resources[distName].Type # DISTRIBUTION_TYPE
    THEN [kind |-> "WrongResourceType",
          msg |-> "is not type AWS::CloudFront::Distribution", value |-> distName]
    ELSE NoError

\* What the reduce callback pushes for an accepted declaration.
PendingOf(fnDef) ==
    [fnLogicalName |-> getLambdaLogicalId(fnDef.name),
     distributionID |-> fnDef.lambdaAtEdge.distributionID,
     distLogicalName |-> fnDef.lambdaAtEdge.distribution,
     fnCurrentVersionOutputName |-> getLambdaVersionOutputLogicalId(fnDef.name),
     eventType |-> fnDef.lambdaAtEdge.eventType]

\* The reduce over functions: [memo, thrown]; it stops at the first throw.
RECURSIVE ReduceFunctions(_, _, _, _)
ReduceFunctions(memo, fs, tmpl, i) ==
    IF i > Len(fs) THEN [memo |-> memo, thrown |-> NoError]
    ELSE IF ~fs[i].lambdaAtEdge.defined
    THEN ReduceFunctions(memo, fs, tmpl, i + 1)
    ELSE LET e == CheckDeclaration(fs[i], tmpl) IN
         IF e # NoError THEN [memo |-> memo, thrown |-> e]
         ELSE ReduceFunctions(Append(memo, PendingOf(fs[i])), fs, tmpl, i + 1)

\* The test of the .each callback, passing only for a non-empty Variables.
HasVariablesNonEmpty(env) == env.defined /\ env.hasVariables /\ env.nVariables > 0

\* if (fnProps && fnProps.Environment && fnProps.Environment.Variables)
HasVariables(env) == env.defined /\ env.hasVariables

\* The .each over the pending associations: [template, log].
RECURSIVE EachPending(_, _, _)
EachPending(acc, pend, i) ==
    IF i > Len(pend) THEN acc
    ELSE LET n   == pend[i].fnLogicalName
             env == acc.template.Resources[n].Properties.Environment IN
         IF HasVariables(env)
         THEN EachPending(
                [template |-> [acc.template EXCEPT
                                  !.Resources[n].Properties.Environment = NoEnvironment],
                 log |-> Append(acc.log,
                            [msg |-> "Removing environment variables from function",
                             count |-> env.nVariables, fnLogicalName |-> n])],
                pend, i + 1)
         ELSE EachPending(acc, pend, i + 1)

\* The chain with its effects applied as it goes: what was accepted before
\* the throw is assigned and stripped.
modifyLambdaFunctionsEager(fs, tmpl, prev) ==
    LET r == ReduceFunctions(<<>>, fs, tmpl, 1)
        e == EachPending([template |-> tmpl, log |-> <<>>], r.memo, 1)
    IN [pendingAssociations |-> r.memo, template |-> e.template, log |-> e.log,
        thrown |-> r.thrown]

\* this._pendingAssociations = _.chain(functions).reduce(...).each(...).value():
\* a throw in the reduce comes before the .each and before the assignment.
modifyLambdaFunctions(fs, tmpl, prev) ==
    LET r == ReduceFunctions(<<>>, fs, tmpl, 1) IN
    IF r.thrown # NoError
    THEN [pendingAssociations |-> prev, template |-> tmpl, log |-> <<>>,
          thrown |-> r.thrown]
    ELSE LET e == EachPending([template |-> tmpl, log |-> <<>>], r.memo, 1) IN
         [pendingAssociations |-> r.memo, template |-> e.template, log |-> e.log,
          thrown |-> NoError]

InitValidate ==
    /\ \E defs \in SeqsUpTo(FnDefs, MaxFunctions) :
          /\ functions = FunctionsOf(defs)
          /\ template = TemplateOf(defs)
    /\ pendingAssociations = undefined
    /\ thrown = NoError
    /\ validateLog = <<>>
    /\ vpc = "ready"
    /\ IdleMerge
    /\ IdlePass
    /\ IdleResolve
    /\ IdleRole

\* _modifyLambdaFunctions(functions, template): the whole chain. A throw in
\* the reduce leaves this._pendingAssociations and the template as they were.
ModifyLambdaFunctions ==
    /\ vpc = "ready"
    /\ LET r == modifyLambdaFunctions(functions, template, pendingAssociations) IN
        /\ thrown' = r.thrown
        /\ pendingAssociations' = r.pendingAssociations
        /\ template' = r.template
        /\ validateLog' = validateLog \o r.log
    /\ vpc' = "done"
    /\ UNCHANGED functions
    /\ UNCHANGED <<mergeVars, passVars, resolveVars, roleVars, run>>

NextValidate == ModifyLambdaFunctions

SpecValidate == InitValidate /\ [][NextValidate]_vars


(***************************************************************************)
(* The reconcile pass: _updateDistributionsAsNecessary, the updater        *)
(* _updateDistributionAsNecessary, the waiter                              *)
(* _waitForDistributionDeployed with its dot timer, and the backend.       *)
(***************************************************************************)
DistributionIDs == {"D1", "D2"}
DistLogicalNames == {"WebDist", "OtherDist"}

\* OutputValue of a function's version output: its current qualified ARN.
getFunctionARN(fnName) ==
    [someFn |-> "arn:someFn:2", otherFn |-> "arn:otherFn:2",
     thirdFn |-> "arn:thirdFn:2", fourthFn |-> "arn:fourthFn:2"][fnName]

\* Configurations the distributions of a pass start with: one that holds
\* none of the declared bindings (and an unrelated old one), and one that
\* already holds someFn's address for viewer-request in every behavior.
UnboundConfig ==
    [DefaultCacheBehavior |-> BehaviorOf(<<>>),
     CacheBehaviors |->
        <<BehaviorOf(<<[EventType |-> "origin-response",
                        LambdaFunctionARN |-> "arn:old:1"]>>)>>]

BoundConfig ==
    [DefaultCacheBehavior |->
        BehaviorOf(<<[EventType |-> "viewer-request",
                      LambdaFunctionARN |-> getFunctionARN("someFn")]>>),
     CacheBehaviors |->
        <<BehaviorOf(<<[EventType |-> "viewer-request",
                        LambdaFunctionARN |-> getFunctionARN("someFn")]>>)>>]

PassConfigs == {UnboundConfig, BoundConfig}

\* The resolved pending associations of a pass: association i belongs to
\* function FunctionNames[i].
ResolvedPending ==
    [distributionID : DistributionIDs, distLogicalName : DistLogicalNames,
     eventType : MergeEventTypes]

\* _getDistributionPhysicalIDs: one entry per pending association, keyed by
\* its function's logical name, in declaration order.
DistsOf(pend) ==
    [i \in 1..Len(pend) |->
        [key |-> getLambdaLogicalId(FunctionNames[i]),
         distributionID |-> pend[i].distributionID,
         distLogicalName |-> pend[i].distLogicalName]]

\* _getFunctionsToAssociate: the bindings grouped by distLogicalName, each
\* group in declaration order.
RECURSIVE GroupOf(_, _, _)
GroupOf(pend, name, i) ==
    IF i > Len(pend) THEN <<>>
    ELSE IF pend[i].distLogicalName = name
    THEN <<[eventType |-> pend[i].eventType, fnARN |-> getFunctionARN(FunctionNames[i])]>>
         \o GroupOf(pend, name, i + 1)
    ELSE GroupOf(pend, name, i + 1)

FnsOf(pend) ==
    [n \in {pend[i].distLogicalName : i \in 1..Len(pend)} |-> GroupOf(pend, n, 1)]

\* The getDistribution response (and what waitFor hands its callback).
Snapshot(id) ==
    [defined |-> TRUE, Status |-> backend[id].Status,
     DistributionConfig |-> backend[id].DistributionConfig, ETag |-> backend[id].ETag]

Request(op, id) == [op |-> op, Id |-> id, DistributionConfig |-> EmptyConfig, IfMatch |-> 0]

Notice(msg, arg) == [msg |-> msg, arg |-> arg]

RECURSIVE MergeNotices(_, _)
MergeNotices(log, i) ==
    IF i > Len(log) THEN <<>>
    ELSE <<Notice(log[i].msg, <<log[i].eventType, log[i].fnARN>>)>> \o MergeNotices(log, i + 1)

TypeError == [kind |-> "TypeError", msg |-> "Cannot read property 'Distribution' of undefined", value |-> null]
BackendFault(op) == [kind |-> "BackendFault", msg |-> op, value |-> null]
PreconditionFailed == [kind |-> "PreconditionFailed", msg |-> "updateDistribution", value |-> null]

\* The errors a backend wait can report (the waiter gave up, or a fault).
WaitErrors ==
    {BackendFault("waitFor"),
     [kind |-> "ResourceNotReady", msg |-> "waitFor", value |-> null]}

CurrentDist == dists[distIndex]

\* for (const distKey of distKeys): the position after entry i.
NextDistKeySkipping(i) == i + 2

NextDistKey(i) == i + 1

\* if (data.Distribution.Status !== 'Deployed')
NotDeployedNever(d) == FALSE

NotDeployed(d) == d.Status # "Deployed"

\* updateParams, with the token of the initial configuration.
updateParamsFirstToken(distID, config, d) ==
    [op |-> "updateDistribution", Id |-> distID, DistributionConfig |-> config,
     IfMatch |-> 1]

\* updateParams: Id, the merged DistributionConfig, IfMatch: data.ETag.
updateParams(distID, config, d) ==
    [op |-> "updateDistribution", Id |-> distID, DistributionConfig |-> config,
     IfMatch |-> d.ETag]

\* A rejected updateDistribution request skips both then callbacks: the
\* updater's promise rejects with the error and the loop's await throws it.
\* First with the rejection swallowed, the chain going on.
OnUpdateRejectedSwallowed(err) == [pc |-> "updated", rejection |-> NoError]

OnUpdateRejected(err) == [pc |-> "rejected", rejection |-> err]

\* return reject(err), with the error replaced by a generic one.
RejectWaitGeneric(err) == BackendFault("waitFor")

\* return reject(err)
RejectWait(err) == err

InitPass ==
    /\ \E pend \in SeqsUpTo(ResolvedPending, MaxPending) :
          /\ dists = DistsOf(pend)
          /\ fnsByDist = FnsOf(pend)
    /\ backend \in [DistributionIDs ->
                       [Status : {"Deployed", "InProgress"},
                        DistributionConfig : PassConfigs,
                        ETag : {1}]]
    /\ distIdIsWaiting = null
    /\ alreadyWaitingForUpdates = {}
    /\ distIndex = 1
    /\ pc = "loop"
    /\ data = NoData
    /\ waiter = NoWaiter
    /\ waitCalls = <<>>
    /\ clients = 0
    /\ requests = <<>>
    /\ cliLog = <<>>
    /\ rejection = NoError
    /\ IdleMerge
    /\ IdleValidate
    /\ IdleResolve
    /\ IdleRole

\* The for loop calls the updater for the next entry, which requests
\* getDistribution.
CallUpdater ==
    /\ pc = "loop"
    /\ distIndex <= Len(dists)
    /\ requests' = Append(requests, Request("getDistribution", CurrentDist.distributionID))
    /\ pc' = "getDistribution"
    /\ UNCHANGED <<dists, fnsByDist, backend, distIdIsWaiting, alreadyWaitingForUpdates,
                   distIndex, data, waiter, waitCalls, clients, cliLog, rejection>>
    /\ UNCHANGED <<mergeVars, validateVars, resolveVars, roleVars, run>>

\* The for loop is over: the pass resolves.
PassResolves ==
    /\ pc = "loop"
    /\ distIndex > Len(dists)
    /\ pc' = "resolved"
    /\ UNCHANGED <<dists, fnsByDist, backend, distIdIsWaiting, alreadyWaitingForUpdates,
                   distIndex, data, waiter, waitCalls, clients, requests, cliLog,
                   rejection>>
    /\ UNCHANGED <<mergeVars, validateVars, resolveVars, roleVars, run>>

GetDistributionResponds ==
    /\ pc = "getDistribution"
    /\ data' = Snapshot(CurrentDist.distributionID)
    /\ pc' = "fetched"
    /\ UNCHANGED <<dists, fnsByDist, backend, distIdIsWaiting, alreadyWaitingForUpdates,
                   distIndex, waiter, waitCalls, clients, requests, cliLog, rejection>>
    /\ UNCHANGED <<mergeVars, validateVars, resolveVars, roleVars, run>>

\* A rejected getDistribution request, with the loop calling the updater
\* for the entry again.
OnReadRejectedRetry(err) == [pc |-> "loop", rejection |-> NoError]

\* let data = await this._provider.request(...): a rejection is thrown out
\* of the updater and out of the loop's await.
OnReadRejected(err) == [pc |-> "rejected", rejection |-> err]

GetDistributionFails ==
    /\ pc = "getDistribution"
    /\ rejection' = OnReadRejected(BackendFault("getDistribution")).rejection
    /\ pc' = OnReadRejected(BackendFault("getDistribution")).pc
    /\ UNCHANGED <<dists, fnsByDist, backend, distIdIsWaiting, alreadyWaitingForUpdates,
                   distIndex, data, waiter, waitCalls, clients, requests, cliLog>>
    /\ UNCHANGED <<mergeVars, validateVars, resolveVars, roleVars, run>>

\* The guard left out: every call polls.
AlreadyWaitingNever(distPhysicalID) == FALSE

\* The guard of _waitForDistributionDeployed: if (this._distIdIsWaiting).
AlreadyWaiting(distPhysicalID) == distIdIsWaiting # null

\* A call _waitForDistributionDeployed(distPhysicalID, distLogicalName), up
\* to its return or to the promise it leaves pending: past the guard it
\* constructs a client, registers the identifier, arms the dot timer and
\* issues waitFor.
WaitForDistributionDeployed(distPhysicalID, distLogicalName, returned, waiting) ==
    /\ waitCalls' = Append(waitCalls, [Id |-> distPhysicalID, name |-> distLogicalName])
    /\ IF AlreadyWaiting(distPhysicalID)
       THEN /\ pc' = returned
            /\ UNCHANGED <<distIdIsWaiting, waiter, clients, requests>>
       ELSE /\ clients' = clients + 1
            /\ distIdIsWaiting' = distPhysicalID
            /\ waiter' = [Id |-> distPhysicalID, name |-> distLogicalName,
                          dotPrinted |-> FALSE, running |-> TRUE, timer |-> TRUE,
                          dots |-> 0, outstanding |-> TRUE, err |-> NoError]
            /\ requests' = Append(requests, Request("waitFor", distPhysicalID))
            /\ pc' = waiting
    /\ UNCHANGED cliLog

\* data = await of a waiter that returned at its guard, with the response of
\* getDistribution kept.
AwaitedAtGuardKeepsData(d) == d

\* data = await this._waitForDistributionDeployed(...) when the waiter
\* returned at its guard: undefined.
AwaitedAtGuard(d) == NoData

\* The updater found the distribution not deployed and awaits the waiter;
\* a waiter that returns at once leaves data undefined.
PreWaitCall ==
    /\ pc = "fetched"
    /\ NotDeployed(data)
    /\ WaitForDistributionDeployed(CurrentDist.distributionID, CurrentDist.distLogicalName,
                                   "merge", "preWaiting")
    /\ data' = IF AlreadyWaiting(CurrentDist.distributionID)
               THEN AwaitedAtGuard(data) ELSE data
    /\ UNCHANGED <<dists, fnsByDist, backend, alreadyWaitingForUpdates, distIndex,
                   rejection>>
    /\ UNCHANGED <<mergeVars, validateVars, resolveVars, roleVars, run>>

\* The dot timer fires: dotPrinter.
DotPrinter ==
    /\ waiter.timer
    /\ waiter.dots < MaxDots
    /\ IF waiter.running
       THEN /\ cliLog' = cliLog
                 \o (IF waiter.dotPrinted THEN <<>>
                     ELSE <<Notice("Waiting for CloudFront distribution to be deployed",
                                   <<waiter.name>>),
                            Notice("This can take awhile.", <<>>)>>)
                 \o <<Notice("printDot", <<>>)>>
            /\ waiter' = [waiter EXCEPT !.dotPrinted = TRUE, !.dots = waiter.dots + 1]
       ELSE /\ waiter' = [waiter EXCEPT !.timer = FALSE]
            /\ UNCHANGED cliLog
    /\ UNCHANGED <<dists, fnsByDist, backend, distIdIsWaiting, alreadyWaitingForUpdates,
                   distIndex, pc, data, waitCalls, clients, requests, rejection>>
    /\ UNCHANGED <<mergeVars, validateVars, resolveVars, roleVars, run>>

\* The line is cleared whether or not a dot was printed.
clearLineAlways(dotPrinted) == <<Notice("consoleLog", <<>>)>>

\* if (dotPrinted) { this._serverless.cli.consoleLog('') }
clearLine(dotPrinted) ==
    IF dotPrinted THEN <<Notice("consoleLog", <<>>)>> ELSE <<>>

\* The backend reports the distribution deployed: the waitFor callback
\* without err.
WaitResponds ==
    /\ pc \in {"preWaiting", "postWaiting"}
    /\ backend[waiter.Id].Status = "Deployed"
    /\ waiter' = [waiter EXCEPT !.running = FALSE, !.timer = FALSE, !.outstanding = FALSE]
    /\ cliLog' = cliLog
          \o clearLine(waiter.dotPrinted)
          \o <<Notice("Distribution is now in state",
                      <<waiter.name, backend[waiter.Id].Status>>)>>
    /\ IF pc = "preWaiting"
       THEN data' = Snapshot(waiter.Id) /\ pc' = "merge"
       ELSE data' = data /\ pc' = "postWaited"
    /\ UNCHANGED <<dists, fnsByDist, backend, distIdIsWaiting, alreadyWaitingForUpdates,
                   distIndex, waitCalls, clients, requests, rejection>>
    /\ UNCHANGED <<mergeVars, validateVars, resolveVars, roleVars, run>>

\* The backend wait reports an error: the waitFor callback with err.
WaitFails ==
    /\ pc \in {"preWaiting", "postWaiting"}
    /\ \E err \in WaitErrors :
          /\ waiter' = [waiter EXCEPT !.timer = FALSE, !.outstanding = FALSE,
                                      !.err = err]
          /\ rejection' = RejectWait(err)
    /\ pc' = "rejected"
    /\ UNCHANGED <<dists, fnsByDist, backend, distIdIsWaiting, alreadyWaitingForUpdates,
                   distIndex, data, waitCalls, clients, requests, cliLog>>
    /\ UNCHANGED <<mergeVars, validateVars, resolveVars, roleVars, run>>

\* The updater from const config = data.Distribution.DistributionConfig to
\* the updateDistribution request, or to its return when nothing changed.
Merge ==
    /\ \/ pc = "merge"
       \/ pc = "fetched" /\ ~NotDeployed(data)
    /\ IF ~data.defined
       THEN /\ rejection' = TypeError
            /\ pc' = "rejected"
            /\ UNCHANGED <<data, alreadyWaitingForUpdates, requests, cliLog, distIndex>>
       ELSE LET r == modifyDistributionConfigIfNeeded(
                        data.DistributionConfig, fnsByDist[CurrentDist.distLogicalName])
            IN
            /\ data' = [data EXCEPT !.DistributionConfig = r.config]
            /\ IF r.changed
               THEN /\ alreadyWaitingForUpdates' = alreadyWaitingForUpdates
                          \cup {<<CurrentDist.distributionID, CurrentDist.distLogicalName>>}
                    /\ cliLog' = cliLog \o MergeNotices(r.log, 1)
                          \o <<Notice("Updating distribution", <<CurrentDist.distLogicalName>>)>>
                    /\ requests' = Append(requests,
                          updateParams(CurrentDist.distributionID, r.config, data))
                    /\ pc' = "updateDistribution"
                    /\ UNCHANGED distIndex
               ELSE /\ cliLog' = Append(cliLog,
                          Notice("The distribution is already configured", <<>>))
                    /\ distIndex' = NextDistKey(distIndex)
                    /\ pc' = "loop"
                    /\ UNCHANGED <<alreadyWaitingForUpdates, requests>>
            /\ UNCHANGED rejection
    /\ UNCHANGED <<dists, fnsByDist, backend, distIdIsWaiting, waiter, waitCalls, clients>>
    /\ UNCHANGED <<mergeVars, validateVars, resolveVars, roleVars, run>>

\* The backend accepts the update if the token is current: it stores the
\* configuration and starts deploying it.
UpdateDistributionResponds ==
    /\ pc = "updateDistribution"
    /\ LET req == requests[Len(requests)] IN
       IF req.IfMatch = backend[req.Id].ETag
       THEN /\ backend' = [backend EXCEPT ![req.Id] =
                              [Status |-> "InProgress",
                               DistributionConfig |-> req.DistributionConfig,
                               ETag |-> backend[req.Id].ETag + 1]]
            /\ pc' = "updated"
            /\ UNCHANGED rejection
       ELSE /\ rejection' = OnUpdateRejected(PreconditionFailed).rejection
            /\ pc' = OnUpdateRejected(PreconditionFailed).pc
            /\ UNCHANGED backend
    /\ UNCHANGED <<dists, fnsByDist, distIdIsWaiting, alreadyWaitingForUpdates, distIndex,
                   data, waiter, waitCalls, clients, requests, cliLog>>
    /\ UNCHANGED <<mergeVars, validateVars, resolveVars, roleVars, run>>

\* The backend rejects the update (the token went stale through another
\* writer, or any other fault).
UpdateDistributionFails ==
    /\ pc = "updateDistribution"
    /\ rejection' = OnUpdateRejected(PreconditionFailed).rejection
    /\ pc' = OnUpdateRejected(PreconditionFailed).pc
    /\ UNCHANGED <<dists, fnsByDist, backend, distIdIsWaiting, alreadyWaitingForUpdates,
                   distIndex, data, waiter, waitCalls, clients, requests, cliLog>>
    /\ UNCHANGED <<mergeVars, validateVars, resolveVars, roleVars, run>>

\* .then(() => this._waitForDistributionDeployed(distID, distName))
PostWaitCall ==
    /\ pc = "updated"
    /\ WaitForDistributionDeployed(CurrentDist.distributionID, CurrentDist.distLogicalName,
                                   "postWaited", "postWaiting")
    /\ UNCHANGED <<dists, fnsByDist, backend, alreadyWaitingForUpdates, distIndex, data,
                   rejection>>
    /\ UNCHANGED <<mergeVars, validateVars, resolveVars, roleVars, run>>

\* .then(() => log('Done updating distribution ...')); the updater returns.
DoneUpdating ==
    /\ pc = "postWaited"
    /\ cliLog' = Append(cliLog, Notice("Done updating distribution",
                                       <<CurrentDist.distLogicalName>>))
    /\ distIndex' = NextDistKey(distIndex)
    /\ pc' = "loop"
    /\ UNCHANGED <<dists, fnsByDist, backend, distIdIsWaiting, alreadyWaitingForUpdates,
                   data, waiter, waitCalls, clients, requests, rejection>>
    /\ UNCHANGED <<mergeVars, validateVars, resolveVars, roleVars, run>>

\* The backend finishes deploying a distribution.
Deploy ==
    \E id \in DistributionIDs :
        /\ backend[id].Status = "InProgress"
        /\ backend' = [backend EXCEPT ![id].Status = "Deployed"]
        /\ UNCHANGED <<dists, fnsByDist, distIdIsWaiting, alreadyWaitingForUpdates,
                       distIndex, pc, data, waiter, waitCalls, clients, requests, cliLog,
                       rejection>>
        /\ UNCHANGED <<mergeVars, validateVars, resolveVars, roleVars, run>>

NextPass ==
    \/ CallUpdater
    \/ PassResolves
    \/ GetDistributionResponds
    \/ GetDistributionFails
    \/ PreWaitCall
    \/ DotPrinter
    \/ WaitResponds
    \/ WaitFails
    \/ Merge
    \/ UpdateDistributionResponds
    \/ UpdateDistributionFails
    \/ PostWaitCall
    \/ DoneUpdating
    \/ Deploy

SpecPass == InitPass /\ [][NextPass]_vars

\* A pass in which every request is answered without a fault, under the
\* event loop's scheduling: a callback that is ready runs, a response that
\* is due arrives, and the backend finishes every deployment.
PassStep ==
    \/ CallUpdater
    \/ PassResolves
    \/ GetDistributionResponds
    \/ PreWaitCall
    \/ DotPrinter
    \/ WaitResponds
    \/ Merge
    \/ UpdateDistributionResponds
    \/ PostWaitCall
    \/ DoneUpdating

NextPassLive ==
    \/ PassStep
    \/ Deploy

\* The distributions hold none of the declared bindings and are deployed
\* or still deploying.
InitPassLive ==
    /\ InitPass
    /\ \A id \in DistributionIDs : backend[id].DistributionConfig = UnboundConfig

SpecPassLive ==
    InitPassLive /\ [][NextPassLive]_vars /\ WF_vars(PassStep) /\ WF_vars(Deploy)

(***************************************************************************)
(* _onBeforeDeployFinalize and its resolvers: _getFunctionsToAssociate     *)
(* (describeStacks) and _getDistributionPhysicalIDs                        *)
(* (describeStackResources), joined by Promise.all.                        *)
(***************************************************************************)

\* this._provider.naming.getStackName()
getStackName == "some-stack"

\* lodash _.find(seq, { field: value }): the position of the first element
\* whose field has the value, or 0.
find(seq, field, value) ==
    IF \E i \in 1..Len(seq) : seq[i][field] = value
    THEN CHOOSE i \in 1..Len(seq) :
            seq[i][field] = value /\ \A j \in 1..(i - 1) : seq[j][field] # value
    ELSE 0

\* The elements of seq that are in S, in the order of seq.
Restrict(seq, S) == SelectSeq(seq, LAMBDA x : x \in S)

\* Pending associations as _modifyLambdaFunctions leaves them: association
\* i belongs to function FunctionNames[i]; with or without a distributionID.
PendingAssociationsOf(k) ==
    {pend \in [1..k -> [fnLogicalName : {getLambdaLogicalId(FunctionNames[i]) : i \in 1..k},
                        distributionID : DistributionIDs \cup {null},
                        distLogicalName : DistLogicalNames,
                        fnCurrentVersionOutputName :
                            {getLambdaVersionOutputLogicalId(FunctionNames[i]) : i \in 1..k},
                        eventType : MergeEventTypes]] :
        \A i \in 1..k :
            /\ pend[i].fnLogicalName = getLambdaLogicalId(FunctionNames[i])
            /\ pend[i].fnCurrentVersionOutputName
                  = getLambdaVersionOutputLogicalId(FunctionNames[i])}

\* Outputs of the deployed stack: the version outputs of the functions in S.
OutputsOf(S) ==
    LET names == Restrict(FunctionNames, S) IN
    [i \in 1..Len(names) |->
        [OutputKey |-> getLambdaVersionOutputLogicalId(names[i]),
         OutputValue |-> getFunctionARN(names[i])]]

\* resp.Stacks of describeStacks: nothing, another stack, or the deployment
\* stack with some of the version outputs.
StacksResponses ==
    {<<>>, <<[StackName |-> "another-stack", Outputs |-> <<>>]>>}
    \cup {<<[StackName |-> getStackName, Outputs |-> OutputsOf(S)]>> :
            S \in SUBSET {FunctionNames[i] : i \in 1..MaxPending}}

DistLogicalNameSeq == <<"WebDist", "OtherDist">>

\* resp.StackResources of describeStackResources: some of the named
\* distributions, each with a physical identifier.
StackResourcesResponses ==
    UNION {{[i \in 1..Len(Restrict(DistLogicalNameSeq, S)) |->
                [LogicalResourceId |-> Restrict(DistLogicalNameSeq, S)[i],
                 PhysicalResourceId |-> f[Restrict(DistLogicalNameSeq, S)[i]]]] :
              f \in [S -> DistributionIDs]} :
           S \in SUBSET DistLogicalNames}

StackNotFound(stackName) ==
    [kind |-> "StackNotFound",
     msg |-> "CloudFormation did not return a stack with name", value |-> stackName]
OutputNotFound(outputName) ==
    [kind |-> "OutputNotFound",
     msg |-> "Stack did not have an output with name", value |-> outputName]
ResourceNotFound(distLogicalName) ==
    [kind |-> "ResourceNotFound",
     msg |-> "Stack did not have a resource with logical name", value |-> distLogicalName]

Fulfilled(v) == [state |-> "fulfilled", value |-> v, error |-> NoError]
Rejected(e) == [state |-> "rejected", value |-> <<>>, error |-> e]
Pending == [state |-> "pending", value |-> <<>>, error |-> NoError]

\* memo[name].push(binding), at the front instead.
PushBindingFront(group, binding) == <<binding>> \o group

\* memo[pending.distLogicalName].push({eventType, fnARN})
PushBinding(group, binding) == Append(group, binding)

\* The reduce of _getFunctionsToAssociate over the pending associations:
\* a promise state, rejected at the first output that is not found.
RECURSIVE ReduceOutputs(_, _, _, _)
ReduceOutputs(memo, pend, outputs, i) ==
    IF i > Len(pend) THEN Fulfilled(memo)
    ELSE LET outputName == pend[i].fnCurrentVersionOutputName
             o == find(outputs, "OutputKey", outputName)
             name == pend[i].distLogicalName
         IN
         IF o = 0 THEN Rejected(OutputNotFound(outputName))
         ELSE LET group == IF name \in DOMAIN memo THEN memo[name] ELSE <<>>
                  binding == [eventType |-> pend[i].eventType,
                              fnARN |-> outputs[o].OutputValue]
              IN ReduceOutputs(
                    [n \in DOMAIN memo \cup {name} |->
                        IF n = name THEN PushBinding(group, binding) ELSE memo[n]],
                    pend, outputs, i + 1)

\* The then callback of _getFunctionsToAssociate on resp.Stacks.
getFunctionsToAssociate(pend, stacks) ==
    LET s == find(stacks, "StackName", getStackName) IN
    IF s = 0 THEN Rejected(StackNotFound(getStackName))
    ELSE ReduceOutputs(<<>>, pend, stacks[s].Outputs, 1)

\* memo[key] = entry on a mapping kept in key insertion order.
SetKey(memo, entry) ==
    LET k == find(memo, "key", entry.key) IN
    IF k = 0 THEN Append(memo, entry) ELSE [memo EXCEPT ![k] = entry]

\* existingDistIds: the reduce over the pending associations that carry a
\* distributionID.
RECURSIVE existingDistIds(_, _, _)
existingDistIds(memo, pend, i) ==
    IF i > Len(pend) THEN memo
    ELSE IF pend[i].distributionID # null
    THEN existingDistIds(
            SetKey(memo, [key |-> pend[i].fnLogicalName,
                          distributionID |-> pend[i].distributionID,
                          distLogicalName |-> pend[i].distLogicalName]),
            pend, i + 1)
    ELSE existingDistIds(memo, pend, i + 1)

\* The test of the early return, never passing.
AllHaveDistributionIDsNever(pend) == FALSE

\* if (_.size(existingDistIds) === this._pendingAssociations.length)
AllHaveDistributionIDs(pend) ==
    Len(existingDistIds(<<>>, pend, 1)) = Len(pend)

\* The stack resource of a logical name: the first of the response instead.
findResourceFirst(resources, distLogicalName) ==
    IF Len(resources) > 0 THEN 1 ELSE 0

\* _.find(resp.StackResources, { LogicalResourceId: pending.distLogicalName })
findResource(resources, distLogicalName) ==
    find(resources, "LogicalResourceId", distLogicalName)

\* The reduce of _getDistributionPhysicalIDs over the pending associations
\* on resp.StackResources: rejected at the first resource that is not found.
RECURSIVE ReduceResources(_, _, _, _)
ReduceResources(memo, pend, resources, i) ==
    IF i > Len(pend) THEN Fulfilled(memo)
    ELSE LET r == findResource(resources, pend[i].distLogicalName) IN
         IF r = 0 THEN Rejected(ResourceNotFound(pend[i].distLogicalName))
         ELSE ReduceResources(
                SetKey(memo, [key |-> pend[i].fnLogicalName,
                              distributionID |-> resources[r].PhysicalResourceId,
                              distLogicalName |-> pend[i].distLogicalName]),
                pend, resources, i + 1)

InitResolve ==
    /\ pendingAssociations \in UNION {PendingAssociationsOf(k) : k \in 0..MaxPending}
    /\ stack \in [Stacks : StacksResponses, StackResources : StackResourcesResponses]
    /\ fnsPromise = NoPromise
    /\ distsPromise = NoPromise
    /\ rpc = "ready"
    /\ functions = <<>>
    /\ template = [Resources |-> <<>>]
    /\ thrown = NoError
    /\ validateLog = <<>>
    /\ vpc = "done"
    /\ IdleMerge
    /\ IdlePass
    /\ IdleRole

\* Promise.all with a rejection taken for an empty result: once both
\* promises have settled the loop is called.
PromiseAllSettled(fp, dp) ==
    /\ fnsPromise' = fp
    /\ distsPromise' = dp
    /\ IF rpc = "resolving" /\ fp.state \in {"fulfilled", "rejected"}
                            /\ dp.state \in {"fulfilled", "rejected"}
       THEN /\ rpc' = "updating"
            /\ dists' = dp.value
            /\ fnsByDist' = fp.value
            /\ pc' = "loop"
            /\ UNCHANGED rejection
       ELSE UNCHANGED <<rpc, rejection, dists, fnsByDist, pc>>
    /\ UNCHANGED <<backend, distIdIsWaiting, alreadyWaitingForUpdates, distIndex, data,
                   waiter, waitCalls, clients, requests, cliLog>>
    /\ UNCHANGED <<mergeVars, validateVars, stack, roleVars, run>>

\* Promise.all([...]).then(([fns, dist]) => _updateDistributionsAsNecessary):
\* what a settlement of one of the two promises does. The first rejection
\* rejects the hook's promise; the second fulfilment calls the loop.
PromiseAll(fp, dp) ==
    /\ fnsPromise' = fp
    /\ distsPromise' = dp
    /\ IF rpc # "resolving"
       THEN UNCHANGED <<rpc, rejection, dists, fnsByDist, pc>>
       ELSE IF fp.state = "rejected" \/ dp.state = "rejected"
       THEN /\ rpc' = "rejected"
            /\ rejection' = IF fp.state = "rejected" /\ fnsPromise.state # "rejected"
                            THEN fp.error ELSE dp.error
            /\ UNCHANGED <<dists, fnsByDist, pc>>
       ELSE IF fp.state = "fulfilled" /\ dp.state = "fulfilled"
       THEN /\ rpc' = "updating"
            /\ dists' = dp.value
            /\ fnsByDist' = fp.value
            /\ pc' = "loop"
            /\ UNCHANGED rejection
       ELSE UNCHANGED <<rpc, rejection, dists, fnsByDist, pc>>
    /\ UNCHANGED <<backend, distIdIsWaiting, alreadyWaitingForUpdates, distIndex, data,
                   waiter, waitCalls, clients, requests, cliLog>>
    /\ UNCHANGED <<mergeVars, validateVars, stack, roleVars, run>>

\* The test of the early return, never passing.
NothingPendingNever(cnt) == FALSE

\* if (cnt === 0) return
NothingPending(cnt) == cnt = 0

\* _onBeforeDeployFinalize up to the promise it returns: with no pending
\* association it returns at once; otherwise it logs the count and calls
\* both resolvers, which issue their requests (the second one none if every
\* association carries a distributionID).
OnBeforeDeployFinalize ==
    /\ rpc = "ready"
    /\ LET cnt == Len(pendingAssociations) IN
       IF NothingPending(cnt)
       THEN /\ rpc' = "returned"
            /\ UNCHANGED <<fnsPromise, distsPromise, requests, cliLog>>
       ELSE /\ cliLog' = Append(cliLog,
                  Notice("Checking to see if functions need to be associated to CloudFront",
                         <<cnt, IF cnt > 1 THEN "functions need" ELSE "function needs">>))
            /\ fnsPromise' = Pending
            /\ IF AllHaveDistributionIDs(pendingAssociations)
               THEN /\ distsPromise' = Fulfilled(existingDistIds(<<>>, pendingAssociations, 1))
                    /\ requests' = Append(requests, Request("describeStacks", getStackName))
               ELSE /\ distsPromise' = Pending
                    /\ requests' = requests
                          \o <<Request("describeStacks", getStackName),
                               Request("describeStackResources", getStackName)>>
            /\ rpc' = "resolving"
    /\ UNCHANGED <<dists, fnsByDist, backend, distIdIsWaiting, alreadyWaitingForUpdates,
                   distIndex, pc, data, waiter, waitCalls, clients, rejection>>
    /\ UNCHANGED <<mergeVars, validateVars, stack, roleVars, run>>

DescribeStacksResponds ==
    /\ fnsPromise.state = "pending"
    /\ PromiseAll(getFunctionsToAssociate(pendingAssociations, stack.Stacks), distsPromise)

DescribeStacksFails ==
    /\ fnsPromise.state = "pending"
    /\ PromiseAll(Rejected(BackendFault("describeStacks")), distsPromise)

DescribeStackResourcesResponds ==
    /\ distsPromise.state = "pending"
    /\ PromiseAll(fnsPromise,
                  ReduceResources(<<>>, pendingAssociations, stack.StackResources, 1))

DescribeStackResourcesFails ==
    /\ distsPromise.state = "pending"
    /\ PromiseAll(fnsPromise, Rejected(BackendFault("describeStackResources")))

NextResolve ==
    \/ OnBeforeDeployFinalize
    \/ DescribeStacksResponds
    \/ DescribeStacksFails
    \/ DescribeStackResourcesResponds
    \/ DescribeStackResourcesFails

SpecResolve == InitResolve /\ [][NextResolve]_vars

(***************************************************************************)
(* The two hooks in the order the framework runs them: the validator, with *)
(* every shape of a function's Environment, on packaging, and              *)
(* _onBeforeDeployFinalize on deploying, which the framework does not      *)
(* reach when a packaging hook threw.                                      *)
(***************************************************************************)

\* Properties.Environment: absent, without a Variables object, with an
\* empty one, with one of two keys.
StripEnvironments ==
    {NoEnvironment,
     [defined |-> TRUE, hasVariables |-> FALSE, nVariables |-> 0],
     [defined |-> TRUE, hasVariables |-> TRUE, nVariables |-> 0],
     [defined |-> TRUE, hasVariables |-> TRUE, nVariables |-> 2]}

\* No lambdaAtEdge, one accepted through the template's distribution, one
\* accepted through a distributionID, one with an unknown event type.
StripLambdaAtEdges ==
    {NoLambdaAtEdge,
     [defined |-> TRUE, distributionID |-> null, distribution |-> "WebDist",
      eventType |-> "viewer-request"],
     [defined |-> TRUE, distributionID |-> "123ABC", distribution |-> "not-existing",
      eventType |-> "origin-response"],
     [defined |-> TRUE, distributionID |-> null, distribution |-> "WebDist",
      eventType |-> "wrong-event"]}

StripFnDefs == [lambdaAtEdge : StripLambdaAtEdges, environment : StripEnvironments]

\* The declarations with the environment each was compiled with.
DeclaredFunctionsOf(defs) ==
    [i \in 1..Len(defs) |->
        [name |-> FunctionNames[i], lambdaAtEdge |-> defs[i].lambdaAtEdge,
         environment |-> defs[i].environment]]

\* this._pendingAssociations of an earlier call.
PreviousPending ==
    <<[fnLogicalName |-> "OldFnLambdaFunction", distributionID |-> null,
       distLogicalName |-> "WebDist",
       fnCurrentVersionOutputName |-> "OldFnLambdaFunctionQualifiedArn",
       eventType |-> "origin-request"]>>

InitStrip ==
    /\ \E defs \in SeqsUpTo(StripFnDefs, MaxFunctions) :
          /\ functions = DeclaredFunctionsOf(defs)
          /\ template = TemplateOf(defs)
    /\ \/ pendingAssociations = undefined
       \/ pendingAssociations = PreviousPending
    /\ thrown = NoError
    /\ validateLog = <<>>
    /\ vpc = "ready"
    /\ stack = [Stacks |-> <<>>, StackResources |-> <<>>]
    /\ fnsPromise = NoPromise
    /\ distsPromise = NoPromise
    /\ rpc = "ready"
    /\ IdleMerge
    /\ IdlePass
    /\ IdleRole

\* 'before:deploy:finalize' fires after packaging went through.
BeforeDeployFinalize ==
    /\ vpc = "done"
    /\ thrown = NoError
    /\ OnBeforeDeployFinalize

NextStrip ==
    \/ ModifyLambdaFunctions
    \/ BeforeDeployFinalize

SpecStrip == InitStrip /\ [][NextStrip]_vars

(***************************************************************************)
(* The execution role: _modifyExecutionRole on the compiled template, as   *)
(* _modifyTemplate calls it on each packaging hook.  A statement of the    *)
(* AssumeRolePolicyDocument is [hasService, Service]: whether it has a     *)
(* Principal.Service array, and that array.                                *)
(***************************************************************************)
MaxStatements == 2  \* statements of the AssumeRolePolicyDocument
MaxServices == 2    \* entries of one Principal.Service array
MaxRoleRuns == 2    \* calls of _modifyExecutionRole on one template

LAMBDA_SERVICE == "lambda.amazonaws.com"
EDGE_SERVICE == "edgelambda.amazonaws.com"

Services == {LAMBDA_SERVICE, EDGE_SERVICE, "apigateway.amazonaws.com"}

NoRoleWarning ==
    "WARNING: no IAM role for Lambda execution found - can not modify assume role policy"
UpdatedNotice ==
    "Updated Lambda assume role policy to allow Lambda@Edge to assume the role"
UnableWarning ==
    "WARNING: was unable to update the Lambda assume role policy to allow Lambda@Edge to assume the role"

\* Array.prototype.includes
includes(svc, s) == \E k \in 1..Len(svc) : svc[k] = s

\* Principal.Service arrays: each service named at most once.
ServiceLists ==
    {svc \in SeqsUpTo(Services, MaxServices) :
        \A a, b \in 1..Len(svc) : svc[a] = svc[b] => a = b}

RoleStatements ==
    {[hasService |-> FALSE, Service |-> <<>>]}
        \cup {[hasService |-> TRUE, Service |-> svc] : svc \in ServiceLists}

\* The test of the forEach callback without its last conjunct.
NeedsEdgeWheneverLambda(stmt) ==
    /\ stmt.hasService
    /\ includes(stmt.Service, LAMBDA_SERVICE)

\* svc && svc.includes('lambda.amazonaws.com')
\*     && !svc.includes('edgelambda.amazonaws.com')
NeedsEdge(stmt) ==
    /\ stmt.hasService
    /\ includes(stmt.Service, LAMBDA_SERVICE)
    /\ ~includes(stmt.Service, EDGE_SERVICE)

\* The forEach over the statements: the array after svc.push.
PatchStatement(stmt) ==
    IF NeedsEdge(stmt)
    THEN [stmt EXCEPT !.Service = Append(@, EDGE_SERVICE)]
    ELSE stmt

\* What the forEach logs: one notice per statement it extended, in order.
RECURSIVE UpdatedNotices(_, _)
UpdatedNotices(stmts, i) ==
    IF i > Len(stmts) THEN <<>>
    ELSE (IF NeedsEdge(stmts[i]) THEN <<UpdatedNotice>> ELSE <<>>)
            \o UpdatedNotices(stmts, i + 1)

\* let assumeRoleUpdated after the forEach.
assumeRoleUpdated(stmts) == \E i \in 1..Len(stmts) : NeedsEdge(stmts[i])

InitRole ==
    /\ \/ role = NoRole
       \/ \E stmts \in SeqsUpTo(RoleStatements, MaxStatements) :
             role = [defined |-> TRUE, Statement |-> stmts, policyStatements |-> 0]
    /\ roleLog = <<>>
    /\ run = 1
    /\ IdleMerge
    /\ IdleValidate
    /\ IdlePass
    /\ IdleResolve

ModifyExecutionRole ==
    /\ Len(roleLog) < MaxRoleRuns
    /\ IF ~role.defined
       THEN /\ roleLog' = Append(roleLog, <<NoRoleWarning>>)
            /\ role' = role
       ELSE /\ role' = [role EXCEPT
                  !.Statement = [i \in 1..Len(@) |-> PatchStatement(@[i])],
                  !.policyStatements = @ + 1]
            /\ roleLog' = Append(roleLog,
                  UpdatedNotices(role.Statement, 1)
                     \o (IF assumeRoleUpdated(role.Statement)
                         THEN <<>> ELSE <<UnableWarning>>))
    /\ UNCHANGED <<mergeVars, validateVars, passVars, resolveVars, run>>

NextRole == ModifyExecutionRole

SpecRole == InitRole /\ [][NextRole]_vars

(***************************************************************************)
(* A whole reconcile pass: _onBeforeDeployFinalize with its resolvers,     *)
(* then the loop over the resolved mapping with the updater and the        *)
(* waiter, against the deployed stack and the backend.                     *)
(***************************************************************************)

\* Pending associations of a pass: association i belongs to function
\* FunctionNames[i] and names a distribution, with an identifier or without
\* one.
ReconcilePending(k) ==
    {pend \in PendingAssociationsOf(k) :
        \A i \in 1..k : pend[i].distributionID \in {null} \cup DistributionIDs}

\* The deployed stack: describeStacks returns no stack, the stack with
\* every version output, or the stack without the output of the first
\* function; describeStackResources returns both distributions, or WebDist
\* alone with the physical identifier D2.
ReconcileStacks ==
    [Stacks :
        {<<>>,
         <<[StackName |-> getStackName,
            Outputs |-> OutputsOf({FunctionNames[i] : i \in 1..MaxPending})]>>,
         <<[StackName |-> getStackName,
            Outputs |-> OutputsOf({FunctionNames[i] : i \in 2..MaxPending})]>>},
     StackResources :
        {<<[LogicalResourceId |-> "WebDist", PhysicalResourceId |-> "D1"],
           [LogicalResourceId |-> "OtherDist", PhysicalResourceId |-> "D2"]>>,
         <<[LogicalResourceId |-> "WebDist", PhysicalResourceId |-> "D2"]>>}]

\* The backend: D2 deployed without the declared bindings; D1 like it, or
\* still deploying a configuration that holds someFn's binding.
ReconcileBackends ==
    {[id \in DistributionIDs |->
         [Status |-> "Deployed", DistributionConfig |-> UnboundConfig, ETag |-> 1]],
     [id \in DistributionIDs |->
         IF id = "D1"
         THEN [Status |-> "InProgress", DistributionConfig |-> BoundConfig, ETag |-> 1]
         ELSE [Status |-> "Deployed", DistributionConfig |-> UnboundConfig, ETag |-> 1]]}

InitReconcile ==
    /\ pendingAssociations \in UNION {ReconcilePending(k) : k \in 0..MaxPending}
    /\ stack \in ReconcileStacks
    /\ backend \in ReconcileBackends
    /\ fnsPromise = NoPromise
    /\ distsPromise = NoPromise
    /\ rpc = "ready"
    /\ functions = <<>>
    /\ template = [Resources |-> <<>>]
    /\ thrown = NoError
    /\ validateLog = <<>>
    /\ vpc = "done"
    /\ dists = <<>>
    /\ fnsByDist = <<>>
    /\ distIdIsWaiting = null
    /\ alreadyWaitingForUpdates = {}
    /\ distIndex = 1
    /\ pc = "idle"
    /\ data = NoData
    /\ waiter = NoWaiter
    /\ waitCalls = <<>>
    /\ clients = 0
    /\ requests = <<>>
    /\ cliLog = <<>>
    /\ rejection = NoError
    /\ IdleMerge
    /\ IdleRole

NextReconcile ==
    \/ NextResolve
    \/ NextPass

SpecReconcile == InitReconcile /\ [][NextReconcile]_vars

\* The pass resolved and the operator deploys again: a new process, whose
\* packaging hook computes the same pending associations from the same
\* declarations, runs the deploy hook against the same stack and the
\* backend as the first pass left it.
FreshProcess ==
    /\ run = 1
    /\ pc = "resolved"
    /\ run' = 2
    /\ rpc' = "ready"
    /\ fnsPromise' = NoPromise
    /\ distsPromise' = NoPromise
    /\ dists' = <<>>
    /\ fnsByDist' = <<>>
    /\ distIdIsWaiting' = null
    /\ alreadyWaitingForUpdates' = {}
    /\ distIndex' = 1
    /\ pc' = "idle"
    /\ data' = NoData
    /\ waiter' = NoWaiter
    /\ waitCalls' = <<>>
    /\ clients' = 0
    /\ requests' = <<>>
    /\ cliLog' = <<>>
    /\ rejection' = NoError
    /\ UNCHANGED <<backend, stack>>
    /\ UNCHANGED <<mergeVars, validateVars, roleVars>>

NextRetry ==
    \/ NextReconcile
    \/ FreshProcess

SpecRetry == InitReconcile /\ [][NextRetry]_vars

(***************************************************************************)
(* Properties of the behavior merger (SpecMerge).                          *)
(***************************************************************************)
BehaviorIndexes == 1..Len(AllBehaviors(origConfig))

ItemsBefore(b) == AllBehaviors(origConfig)[b].Items
ItemsAfter(b) == AllBehaviors(firstConfig)[b].Items

DesiredTypes(fs) == {fs[i].eventType : i \in 1..Len(fs)}
TypesOf(items) == {items[i].EventType : i \in 1..Len(items)}

\* The address of the last desired binding with event type t.
LastAddr(fs, t) ==
    fs[CHOOSE i \in 1..Len(fs) :
          /\ fs[i].eventType = t
          /\ \A j \in (i + 1)..Len(fs) : fs[j].eventType # t].fnARN

RECURSIVE Ascending(_)
Ascending(S) ==
    IF S = {} THEN <<>>
    ELSE LET m == CHOOSE x \in S : \A y \in S : x <= y
         IN <<m>> \o Ascending(S \ {m})

\* The positions of fs that introduce an event type items does not hold.
FirstNew(items, fs) ==
    Ascending({i \in 1..Len(fs) :
                 /\ fs[i].eventType \notin TypesOf(items)
                 /\ \A j \in 1..(i - 1) : fs[j].eventType # fs[i].eventType})

\* What the three rules (append if absent, overwrite in place if the address
\* differs, leave alone if equal), applied to fs in order, leave of a list
\* with one binding per event type: every old binding at its position, with
\* the last desired address of its type if the type is desired; then one
\* new binding per new type, in order of first declaration.
RuleResult(items, fs) ==
    [i \in 1..Len(items) |->
        IF items[i].EventType \in DesiredTypes(fs)
        THEN [EventType |-> items[i].EventType,
              LambdaFunctionARN |-> LastAddr(fs, items[i].EventType)]
        ELSE items[i]]
    \o
    [k \in 1..Len(FirstNew(items, fs)) |->
        [EventType |-> fs[FirstNew(items, fs)[k]].eventType,
         LambdaFunctionARN |-> LastAddr(fs, fs[FirstNew(items, fs)[k]].eventType)]]

\* The address the list holds for fs[i]'s event type when the loop reaches
\* fs[i]: that of the previous desired binding of the type, else the list's
\* own, else none.
AddrBefore(items, fs, i) ==
    IF \E j \in 1..(i - 1) : fs[j].eventType = fs[i].eventType
    THEN fs[CHOOSE j \in 1..(i - 1) :
               /\ fs[j].eventType = fs[i].eventType
               /\ \A k \in (j + 1)..(i - 1) : fs[k].eventType # fs[i].eventType].fnARN
    ELSE IF FindIndex(items, fs[i].eventType) # 0
    THEN items[FindIndex(items, fs[i].eventType)].LambdaFunctionARN
    ELSE null

\* The desired bindings whose rule writes the list (append or overwrite).
WritingFns(items, fs) == {i \in 1..Len(fs) : AddrBefore(items, fs, i) # fs[i].fnARN}

\* C1: a second call of _modifyDistributionConfigIfNeeded with the same
\* desired bindings, on the configuration the first call left, returns
\* changed = false and leaves every behavior's binding list as the first
\* call produced it.
MergeIdempotent ==
    Len(changed) = 2 =>
        /\ changed[2] = FALSE
        /\ \A b \in BehaviorIndexes :
              AllBehaviors(distConfig)[b].Items = ItemsAfter(b)

\* C2: the merge is additive. In every behavior the list before the merge is
\* a position-wise prefix of the list after it: no binding is removed or
\* moved, event types keep their positions, and a binding whose event type
\* is not desired is identical before and after.
MergeAdditive ==
    Len(changed) >= 1 =>
        \A b \in BehaviorIndexes :
            /\ Len(ItemsAfter(b)) >= Len(ItemsBefore(b))
            /\ \A i \in 1..Len(ItemsBefore(b)) :
                  /\ ItemsAfter(b)[i].EventType = ItemsBefore(b)[i].EventType
                  /\ ItemsBefore(b)[i].EventType \notin DesiredTypes(fns)
                        => ItemsAfter(b)[i] = ItemsBefore(b)[i]

\* C2 witness: a merge changed a behavior that held a binding of an event
\* type that is not desired.
MergeAdditiveWitness ==
    /\ Len(changed) >= 1
    /\ \E b \in BehaviorIndexes :
          /\ ItemsAfter(b) # ItemsBefore(b)
          /\ \E i \in 1..Len(ItemsBefore(b)) :
                ItemsBefore(b)[i].EventType \notin DesiredTypes(fns)

\* C3: in every behavior the list the merge leaves is the result of the
\* three per-binding rules applied to the desired bindings in declaration
\* order: append at the end if the event type is absent, overwrite the
\* address in place if it differs, nothing if it is equal.
MergeFollowsRules ==
    Len(changed) >= 1 =>
        \A b \in BehaviorIndexes : ItemsAfter(b) = RuleResult(ItemsBefore(b), fns)

\* C3 witness: one merge that appended a binding to a behavior and overwrote
\* in place the address of a binding, which kept its position before the
\* appended one.
MergeFollowsRulesWitness ==
    /\ Len(changed) >= 1
    /\ \E b \in BehaviorIndexes :
          /\ Len(ItemsAfter(b)) > Len(ItemsBefore(b))
          /\ \E i \in 1..Len(ItemsBefore(b)) :
                ItemsAfter(b)[i].LambdaFunctionARN # ItemsBefore(b)[i].LambdaFunctionARN

MergeChangedOnlyAdditionalWitness ==
    /\ Len(changed) >= 1
    /\ changed[1]
    /\ writes[1][1] = 0

(***************************************************************************)
(* Properties of the association validator (SpecValidate).                 *)
(***************************************************************************)
Declarations == {i \in 1..Len(functions) : functions[i].lambdaAtEdge.defined}

EventTypeOf(i) == functions[i].lambdaAtEdge.eventType
DistributionOf(i) == functions[i].lambdaAtEdge.distribution
DistributionIDOf(i) == functions[i].lambdaAtEdge.distributionID

Resolves(i) == DistributionOf(i) \in DOMAIN template.Resources

\* A declaration nothing is wrong with: one of the four event types and a
\* distribution that names a distribution resource of the template.
WellFormed(i) ==
    /\ EventTypeOf(i) \in {"viewer-request", "origin-request",
                           "viewer-response", "origin-response"}
    /\ Resolves(i)
    /\ template.Resources[DistributionOf(i)].Type = "AWS::CloudFront::Distribution"

\* Declaration i is the first the validator can object to.
FirstSuspect(i) == i \in Declarations /\ \A j \in Declarations : j < i => WellFormed(j)

Validated == vpc = "done"

\* C5: the validator accepts declarations of any of the four event types
\* that carry a valid distribution reference (one pending association each,
\* with the declared event type), accepts no other event type, and fails on
\* any other event type with an error that names the value, whatever
\* distribution reference the declaration carries.
EventTypeValidation ==
    Validated =>
        /\ (\A i \in Declarations : WellFormed(i)) =>
              /\ thrown = NoError
              /\ Len(pendingAssociations) = Cardinality(Declarations)
              /\ \A i \in Declarations :
                    \E k \in 1..Len(pendingAssociations) :
                       /\ pendingAssociations[k].fnLogicalName
                             = getLambdaLogicalId(functions[i].name)
                       /\ pendingAssociations[k].eventType = EventTypeOf(i)
        /\ thrown = NoError =>
              \A i \in Declarations :
                 EventTypeOf(i) \in {"viewer-request", "origin-request",
                                     "viewer-response", "origin-response"}
        /\ \A i \in Declarations :
              (/\ FirstSuspect(i)
               /\ EventTypeOf(i) \notin {"viewer-request", "origin-request",
                                         "viewer-response", "origin-response"})
              => /\ thrown.kind = "InvalidEventType"
                 /\ thrown.value = EventTypeOf(i)

\* C5 witness: the validator failed with the invalid-event-type error on a
\* declaration that carries no distribution reference at all.
EventTypeValidationWitness ==
    /\ Validated
    /\ thrown.kind = "InvalidEventType"
    /\ \E i \in Declarations :
          /\ FirstSuspect(i)
          /\ EventTypeOf(i) = "wrong-event"
          /\ DistributionOf(i) = null
          /\ DistributionIDOf(i) = null

MissingDistributionFails ==
    Validated =>
        \A i \in Declarations :
            (/\ EventTypeOf(i) \in ValidEventTypeSet
             /\ DistributionIDOf(i) = null
             /\ ~Resolves(i))
            => /\ thrown # NoError
               /\ FirstSuspect(i) =>
                     /\ thrown.kind = "MissingDistributionReference"
                     /\ thrown.value = DistributionOf(i)

\* C8 witness: the validator failed with the missing-reference error on a
\* declaration whose distribution names no resource of the template.
MissingDistributionFailsWitness ==
    /\ Validated
    /\ thrown.kind = "MissingDistributionReference"
    /\ thrown.value = "not-existing"

(***************************************************************************)
(* Properties of the deployment waiter (SpecPass).                         *)
(***************************************************************************)

\* This step is a call of _waitForDistributionDeployed.
WaitCalled == Len(waitCalls') = Len(waitCalls) + 1
CalledId == waitCalls'[Len(waitCalls')].Id

WaitingPcs == {"preWaiting", "postWaiting"}

WaitForRequests == {k \in 1..Len(requests) : requests[k].op = "waitFor"}

\* C9: a call of _waitForDistributionDeployed for the identifier that is
\* registered as waiting returns at once with no result: it constructs no
\* client, issues no request, arms no timer and logs nothing.
WaitDedup ==
    [][(WaitCalled /\ distIdIsWaiting = CalledId) =>
          /\ clients' = clients
          /\ requests' = requests
          /\ waiter' = waiter
          /\ cliLog' = cliLog
          /\ distIdIsWaiting' = distIdIsWaiting
          /\ pc' \in {"merge", "postWaited"}
          /\ pc' = "merge" => data' = NoData]_vars

\* C9 witness: two calls for one identifier were made, the first polled and
\* registered it, the second returned at once: one waitFor request in all.
WaitDedupWitness ==
    /\ Len(waitCalls) = 2
    /\ waitCalls[1].Id = waitCalls[2].Id
    /\ distIdIsWaiting = waitCalls[2].Id
    /\ Cardinality(WaitForRequests) = 1
    /\ pc = "postWaited"

\* C10: a call of _waitForDistributionDeployed for an identifier that is not
\* registered (also when another identifier was registered before)
\* registers it, issues exactly one waitFor request for it and stays pending
\* until the backend reports the distribution deployed or an error.
WaitRegistersAndPolls ==
    [][/\ (WaitCalled /\ distIdIsWaiting # CalledId) =>
             /\ distIdIsWaiting' = CalledId
             /\ requests' = Append(requests, Request("waitFor", CalledId))
             /\ pc' \in WaitingPcs
       /\ (pc \in WaitingPcs /\ pc' \notin WaitingPcs) =>
             \/ backend[waiter.Id].Status = "Deployed"
             \/ rejection' # NoError]_vars

(***************************************************************************)
(* Properties of the distribution updater and of the loop over the         *)
(* resolved mapping (SpecPass).                                            *)
(***************************************************************************)

Last(seq) == seq[Len(seq)]

\* Every desired binding is found, with its address, in every behavior of
\* cfg: the merge has nothing to write.
AlreadyAssociated(cfg, fs) ==
    \A b \in 1..Len(AllBehaviors(cfg)) : \A i \in 1..Len(fs) :
        LET items == AllBehaviors(cfg)[b].Items
            k == FindIndex(items, fs[i].eventType)
        IN k # 0 /\ items[k].LambdaFunctionARN = fs[i].fnARN

DesiredOfCurrent == fnsByDist[CurrentDist.distLogicalName]

\* This step takes the updater from its response to the merge and past it.
MergeStep ==
    /\ pc = "merge" \/ (pc = "fetched" /\ data.Status = "Deployed")
    /\ pc' # pc

UpdateRequests == {k \in 1..Len(requests) : requests[k].op = "updateDistribution"}

GetRequests == SelectSeq(requests, LAMBDA r : r.op = "getDistribution")

SettleNotices == {"Done updating distribution", "The distribution is already configured"}

\* C11: when the merge has something to write, the updater submits one
\* updateDistribution request with the distribution's identifier, the merged
\* configuration and as IfMatch the ETag of the response whose configuration
\* was merged (the backend's current pair); no other step of the invocation
\* submits an update; after the update is accepted the next step is a call
\* of the waiter for that identifier, and the 'Done updating' notice is
\* logged only once that call has returned.
UpdaterSubmitsOnce ==
    [][/\ (MergeStep /\ data.defined
             /\ ~AlreadyAssociated(data.DistributionConfig, DesiredOfCurrent)) =>
             /\ data.ETag = backend[CurrentDist.distributionID].ETag
             /\ data.DistributionConfig
                  = backend[CurrentDist.distributionID].DistributionConfig
             /\ AlreadyAssociated(data'.DistributionConfig,
                                  <<Last(DesiredOfCurrent)>>)
             /\ requests' = Append(requests,
                   [op |-> "updateDistribution",
                    Id |-> CurrentDist.distributionID,
                    DistributionConfig |-> data'.DistributionConfig,
                    IfMatch |-> data.ETag])
             /\ pc' = "updateDistribution"
       /\ (requests' # requests /\ Last(requests').op = "updateDistribution") =>
             MergeStep
       /\ (pc = "updateDistribution" /\ pc' # pc) =>
             /\ requests' = requests
             /\ pc' \in {"updated", "rejected"}
       /\ (pc = "updated" /\ pc' # pc) =>
             /\ WaitCalled
             /\ CalledId = CurrentDist.distributionID
             /\ cliLog' = cliLog
       /\ (cliLog' # cliLog /\ Last(cliLog').msg = "Done updating distribution") =>
             /\ pc = "postWaited"
             /\ Last(waitCalls).Id = CurrentDist.distributionID
             /\ Last(cliLog').arg = <<CurrentDist.distLogicalName>>]_vars

\* C11 witness: the first entry's invocation submitted one update, called
\* the waiter after it and logged 'Done updating'.
UpdaterSubmitsOnceWitness ==
    /\ pc = "loop"
    /\ distIndex = 2
    /\ Cardinality(UpdateRequests) = 1
    /\ Len(waitCalls) >= 1
    /\ Last(waitCalls).Id = dists[1].distributionID
    /\ Last(cliLog) = Notice("Done updating distribution", <<dists[1].distLogicalName>>)

\* C12: an invocation that fetched a Deployed distribution whose
\* configuration already holds every desired binding issued the
\* getDistribution request and nothing else: no updateDistribution, no call
\* of the waiter, and it logs the 'already configured' notice.
UpdaterSkipsUnchanged ==
    [][/\ (pc = "loop" /\ pc' = "getDistribution") =>
             /\ requests' = Append(requests,
                   Request("getDistribution", CurrentDist.distributionID))
             /\ waitCalls' = waitCalls
       /\ (pc = "getDistribution" /\ pc' = "fetched") =>
             /\ requests' = requests
             /\ waitCalls' = waitCalls
             /\ cliLog' = cliLog
       /\ (pc = "fetched" /\ pc' # pc /\ data.Status = "Deployed"
             /\ AlreadyAssociated(data.DistributionConfig, DesiredOfCurrent)) =>
             /\ requests' = requests
             /\ waitCalls' = waitCalls
             /\ backend' = backend
             /\ cliLog' = Append(cliLog,
                   Notice("The distribution is already configured", <<>>))
             /\ pc' = "loop"
             /\ distIndex' = distIndex + 1]_vars

\* C12 witness: the first entry's invocation returned after one
\* getDistribution request, with the 'already configured' notice.
UpdaterSkipsUnchangedWitness ==
    /\ pc = "loop"
    /\ distIndex = 2
    /\ requests = <<Request("getDistribution", dists[1].distributionID)>>
    /\ waitCalls = <<>>
    /\ cliLog = <<Notice("The distribution is already configured", <<>>)>>

\* C13: when getDistribution returned a status other than 'Deployed', the
\* updater's next step is a call of the waiter for that identifier, and no
\* merge notice and no updateDistribution request comes before that call
\* has returned; when it returned 'Deployed', the next step is the merge
\* and no call of the waiter is made before it.
UpdaterPreWait ==
    [][/\ (pc = "fetched" /\ pc' # pc) =>
             IF data.Status # "Deployed"
             THEN /\ WaitCalled
                  /\ CalledId = CurrentDist.distributionID
                  /\ Last(waitCalls').name = CurrentDist.distLogicalName
                  /\ UpdateRequests' = UpdateRequests
                  /\ cliLog' = cliLog
                  /\ pc' \in {"preWaiting", "merge"}
             ELSE /\ waitCalls' = waitCalls
                  /\ pc' \in {"loop", "updateDistribution"}
       /\ pc = "preWaiting" =>
             /\ UpdateRequests' = UpdateRequests
             /\ waitCalls' = waitCalls]_vars

\* C13 witness: the updater fetched a distribution in progress and is
\* awaiting the waiter; nothing was submitted.
UpdaterPreWaitWitness ==
    /\ pc = "preWaiting"
    /\ data.Status = "InProgress"
    /\ Len(waitCalls) = 1
    /\ waitCalls[1].Id = CurrentDist.distributionID
    /\ UpdateRequests = {}

\* C14: after a wait before the merge the updater holds a response, with a
\* configuration and a token, and never fails on an empty wait result.
UpdaterHoldsDataAfterPreWait ==
    /\ pc = "merge" => data.defined
    /\ rejection.kind # "TypeError"

\* C15: the loop has called the updater for the entries before distIndex,
\* once each and in the mapping's order; when the pass resolves it has done
\* so for every entry; and when the loop is about to call the updater for
\* the next entry the previous invocation has settled: it logged its closing
\* notice and no backend wait is outstanding.
SequentialOrchestration ==
    /\ Len(GetRequests) <= Len(dists)
    /\ \A k \in 1..Len(GetRequests) : GetRequests[k].Id = dists[k].distributionID
    /\ Len(GetRequests) = IF pc \in {"loop", "resolved"} THEN distIndex - 1 ELSE distIndex
    /\ pc = "resolved" => Len(GetRequests) = Len(dists)
    /\ pc = "loop" =>
          /\ ~waiter.outstanding
          /\ ~waiter.timer
          /\ distIndex > 1 => Last(cliLog).msg \in SettleNotices

\* C15 witness: a pass over two entries resolved after two invocations.
SequentialOrchestrationWitness ==
    /\ pc = "resolved"
    /\ Len(dists) = 2
    /\ Len(GetRequests) = 2
    /\ dists[1].distributionID # dists[2].distributionID

\* The notices of the log with a given message.
NoticesOf(msg) == {k \in 1..Len(cliLog) : cliLog[k].msg = msg}

\* C19: when the backend wait reports an error the waiter rejects with that
\* error; the step issues no request and logs nothing, and after it no
\* request is issued (no second poll), no status notice and no dot is
\* logged.
WaitErrorPropagates ==
    [][/\ (pc \in WaitingPcs /\ pc' = "rejected") =>
             /\ waiter'.err \in WaitErrors
             /\ rejection' = waiter'.err
             /\ requests' = requests
             /\ cliLog' = cliLog
             /\ ~waiter'.timer
       /\ waiter.err # NoError =>
             /\ requests' = requests
             /\ cliLog' = cliLog
             /\ rejection' = rejection
             /\ pc' = "rejected"]_vars

\* C19 witness: a wait that had printed dots was rejected by the backend
\* with the not-ready error; the log holds no status notice.
WaitErrorPropagatesWitness ==
    /\ pc = "rejected"
    /\ waiter.err.kind = "ResourceNotReady"
    /\ rejection = waiter.err
    /\ waiter.dots > 0
    /\ NoticesOf("Distribution is now in state") = {}
    /\ Cardinality(WaitForRequests) = 1

\* C20: when the backend rejects an updateDistribution request (it stores
\* nothing and keeps its token) the pass rejects with the precondition error: the request is not issued again, the
\* waiter is not called, 'Done updating' is not logged for the entry, and
\* the configurations the backend stores stay as they are from then on.
StaleTokenSurfaces ==
    [][/\ (pc = "updateDistribution" /\ pc' # pc
             /\ backend'[CurrentDist.distributionID].ETag
                   = backend[CurrentDist.distributionID].ETag) =>
             /\ pc' = "rejected"
             /\ rejection' = PreconditionFailed
             /\ backend' = backend
             /\ requests' = requests
             /\ waitCalls' = waitCalls
             /\ cliLog' = cliLog
       /\ rejection = PreconditionFailed =>
             /\ pc' = "rejected"
             /\ rejection' = rejection
             /\ requests' = requests
             /\ waitCalls' = waitCalls
             /\ cliLog' = cliLog
             /\ \A id \in DistributionIDs :
                   /\ backend'[id].DistributionConfig = backend[id].DistributionConfig
                   /\ backend'[id].ETag = backend[id].ETag]_vars

\* C20 witness: the first entry's update was accepted and stored, the second
\* entry's update was rejected; the first distribution keeps the stored
\* configuration.
StaleTokenSurfacesWitness ==
    /\ pc = "rejected"
    /\ rejection = PreconditionFailed
    /\ distIndex = 2
    /\ dists[1].distributionID # dists[2].distributionID
    /\ Cardinality(UpdateRequests) = 2
    /\ \E k \in UpdateRequests :
          /\ requests[k].Id = dists[1].distributionID
          /\ backend[dists[1].distributionID].DistributionConfig
                = requests[k].DistributionConfig
          /\ backend[dists[1].distributionID].ETag = requests[k].IfMatch + 1
    /\ dists[1].distLogicalName # dists[2].distLogicalName
    /\ Cardinality(NoticesOf("Done updating distribution")) = 1
    /\ \A k \in NoticesOf("Done updating distribution") :
          cliLog[k].arg = <<dists[1].distLogicalName>>

(***************************************************************************)
(* Properties of the resolvers (SpecResolve).                              *)
(***************************************************************************)

PendingIndexes == 1..Len(pendingAssociations)

RequestsOf(op) == {k \in 1..Len(requests) : requests[k].op = op}

\* The resolvers were called.
ResolversCalled == rpc \notin {"ready", "returned"}

EveryPendingHasId == \A i \in PendingIndexes : pendingAssociations[i].distributionID # null

\* The stack resources with a logical name, and the outputs with a key.
ResourcesNamed(name) ==
    {k \in 1..Len(stack.StackResources) : stack.StackResources[k].LogicalResourceId = name}

DeploymentStacks ==
    {k \in 1..Len(stack.Stacks) : stack.Stacks[k].StackName = "some-stack"}

OutputsKeyed(key) ==
    {v \in {getFunctionARN(FunctionNames[i]) : i \in 1..Len(FunctionNames)} :
        \E k \in DeploymentStacks : \E o \in 1..Len(stack.Stacks[k].Outputs) :
            /\ stack.Stacks[k].Outputs[o].OutputKey = key
            /\ stack.Stacks[k].Outputs[o].OutputValue = v}

\* C16: when every pending association carries a distributionID,
\* _getDistributionPhysicalIDs issues no request (no describeStackResources
\* request is ever issued) and its promise is fulfilled, from the call on,
\* with one entry per association under its function's logical name, holding
\* the distributionID and the distLogicalName of the association.
ResolverSkipsLookup ==
    (ResolversCalled /\ EveryPendingHasId) =>
        /\ RequestsOf("describeStackResources") = {}
        /\ distsPromise.state = "fulfilled"
        /\ Len(distsPromise.value) = Len(pendingAssociations)
        /\ \A i \in PendingIndexes :
              distsPromise.value[i] =
                 [key |-> pendingAssociations[i].fnLogicalName,
                  distributionID |-> pendingAssociations[i].distributionID,
                  distLogicalName |-> pendingAssociations[i].distLogicalName]

\* C16 witness: two associations with identifiers were resolved and the
\* loop was called, the only request being describeStacks.
ResolverSkipsLookupWitness ==
    /\ rpc = "updating"
    /\ Len(pendingAssociations) = 2
    /\ EveryPendingHasId
    /\ Len(dists) = 2
    /\ requests = <<Request("describeStacks", "some-stack")>>

\* C17: when some pending association carries no distributionID,
\* _getDistributionPhysicalIDs issues one describeStackResources request;
\* on its response the promise is fulfilled, if every association's
\* distLogicalName is the logical name of a stack resource, with one entry
\* per association holding that resource's physical identifier, and is
\* otherwise rejected, without a mapping, with the resource-not-found error
\* for the first association whose resource is absent.
ResolverLooksUpStack ==
    (ResolversCalled /\ ~EveryPendingHasId) =>
        /\ Cardinality(RequestsOf("describeStackResources")) = 1
        /\ distsPromise.state = "fulfilled" =>
              /\ Len(distsPromise.value) = Len(pendingAssociations)
              /\ \A i \in PendingIndexes :
                    /\ distsPromise.value[i].key = pendingAssociations[i].fnLogicalName
                    /\ distsPromise.value[i].distLogicalName
                          = pendingAssociations[i].distLogicalName
                    /\ \E k \in ResourcesNamed(pendingAssociations[i].distLogicalName) :
                          distsPromise.value[i].distributionID
                             = stack.StackResources[k].PhysicalResourceId
        /\ (distsPromise.state = "rejected"
              /\ distsPromise.error # BackendFault("describeStackResources")) =>
              /\ distsPromise.value = <<>>
              /\ \E i \in PendingIndexes :
                    /\ ResourcesNamed(pendingAssociations[i].distLogicalName) = {}
                    /\ \A j \in 1..(i - 1) :
                          ResourcesNamed(pendingAssociations[j].distLogicalName) # {}
                    /\ distsPromise.error
                          = ResourceNotFound(pendingAssociations[i].distLogicalName)
        /\ (distsPromise.state # "pending"
              /\ \E i \in PendingIndexes :
                    ResourcesNamed(pendingAssociations[i].distLogicalName) = {}) =>
              distsPromise.state = "rejected"
        /\ rpc = "updating" => dists = distsPromise.value

\* C17 witness, the lookup: an association without identifier that names
\* the second resource of the stack was resolved to its physical identifier.
ResolverLooksUpStackWitness ==
    /\ distsPromise.state = "fulfilled"
    /\ Len(stack.StackResources) = 2
    /\ \E i \in PendingIndexes :
          /\ pendingAssociations[i].distributionID = null
          /\ pendingAssociations[i].distLogicalName
                = stack.StackResources[2].LogicalResourceId
          /\ distsPromise.value[i].distributionID
                = stack.StackResources[2].PhysicalResourceId
          /\ stack.StackResources[1].PhysicalResourceId
                # stack.StackResources[2].PhysicalResourceId

\* The bindings _getFunctionsToAssociate owes to a distLogicalName: one per
\* association with that name, in declaration order.
RECURSIVE BindingsFor(_, _)
BindingsFor(name, i) ==
    IF i > Len(pendingAssociations) THEN <<>>
    ELSE IF pendingAssociations[i].distLogicalName = name
    THEN <<[eventType |-> pendingAssociations[i].eventType,
            fnARN |-> CHOOSE v \in
                         OutputsKeyed(pendingAssociations[i].fnCurrentVersionOutputName) :
                         TRUE]>>
         \o BindingsFor(name, i + 1)
    ELSE BindingsFor(name, i + 1)

MissingOutput(i) ==
    OutputsKeyed(pendingAssociations[i].fnCurrentVersionOutputName) = {}

FunctionIndexes == 1..Len(functions)

EnvironmentOf(i) ==
    template.Resources[getLambdaLogicalId(functions[i].name)].Properties.Environment

RemovalNotices(i) ==
    {k \in 1..Len(validateLog) :
        validateLog[k].fnLogicalName = getLambdaLogicalId(functions[i].name)}

\* C22: when _modifyLambdaFunctions throws, this._pendingAssociations keeps
\* the value it had, the template is as it was (no Environment was deleted,
\* also not for accepted declarations before the rejected one), nothing was
\* logged, and no backend request is issued then or later: the deploy hook
\* is not reached.
ValidationFailureAborts ==
    [][/\ (vpc = "ready" /\ vpc' = "done" /\ thrown' # NoError) =>
             /\ pendingAssociations' = pendingAssociations
             /\ template' = template
             /\ validateLog' = validateLog
             /\ requests' = requests
       /\ thrown # NoError =>
             /\ requests' = requests
             /\ rpc' = "ready"
             /\ template' = template
             /\ pendingAssociations' = pendingAssociations]_vars

\* C22 witness: the second declaration was rejected; the first, accepted
\* one keeps its two variables and the list of an earlier call is in place.
ValidationFailureAbortsWitness ==
    /\ vpc = "done"
    /\ thrown.kind = "InvalidEventType"
    /\ Len(functions) = 2
    /\ functions[1].lambdaAtEdge.defined
    /\ functions[1].lambdaAtEdge.eventType = "viewer-request"
    /\ EnvironmentOf(1) = [defined |-> TRUE, hasVariables |-> TRUE, nVariables |-> 2]
    /\ pendingAssociations = PreviousPending
    /\ requests = <<>>

\* C25: after a successful validation the pending associations are those of
\* the functions with a lambdaAtEdge object, one each; and when there is
\* none, _onBeforeDeployFinalize returns without a notice, without creating
\* either resolver's promise, without calling the loop and without a request.
EmptyPendingReturns ==
    (vpc = "done" /\ thrown = NoError) =>
        /\ Len(pendingAssociations)
              = Cardinality({i \in FunctionIndexes : functions[i].lambdaAtEdge.defined})
        /\ \A k \in 1..Len(pendingAssociations) :
              \E i \in FunctionIndexes :
                 /\ functions[i].lambdaAtEdge.defined
                 /\ pendingAssociations[k].fnLogicalName
                       = getLambdaLogicalId(functions[i].name)
        /\ (Len(pendingAssociations) = 0 /\ rpc # "ready") =>
              /\ rpc = "returned"
              /\ requests = <<>>
              /\ cliLog = <<>>
              /\ fnsPromise = NoPromise
              /\ distsPromise = NoPromise
              /\ pc = "idle"

\* C25 witness: two functions without a lambdaAtEdge object were declared
\* and the deploy hook returned.
EmptyPendingReturnsWitness ==
    /\ rpc = "returned"
    /\ Len(functions) = 2
    /\ pendingAssociations = <<>>

\* C26: after a successful validation, the resource of every function with
\* a lambdaAtEdge object has no Environment.Variables left (its Environment
\* was deleted if it had a Variables object, and is as it was otherwise) and
\* one removal notice with the number of keys of Variables was logged for it
\* exactly when it had a Variables object; the resources of the other
\* functions keep their Environment and get no notice.
EnvironmentStripped ==
    (vpc = "done" /\ thrown = NoError) =>
        \A i \in FunctionIndexes :
            IF functions[i].lambdaAtEdge.defined
            THEN /\ ~EnvironmentOf(i).hasVariables
                 /\ EnvironmentOf(i) = IF functions[i].environment.hasVariables
                                       THEN NoEnvironment
                                       ELSE functions[i].environment
                 /\ Cardinality(RemovalNotices(i))
                       = IF functions[i].environment.hasVariables THEN 1 ELSE 0
                 /\ \A k \in RemovalNotices(i) :
                       /\ validateLog[k].msg = "Removing environment variables from function"
                       /\ validateLog[k].count = functions[i].environment.nVariables
            ELSE /\ EnvironmentOf(i) = functions[i].environment
                 /\ RemovalNotices(i) = {}

\* C26 witness: of two functions with two variables each, the one with a
\* lambdaAtEdge object lost them and the other kept them; another run has a
\* function whose empty Variables object was removed with a count of 0.
EnvironmentStrippedWitness ==
    /\ vpc = "done"
    /\ thrown = NoError
    /\ Len(functions) = 2
    /\ functions[1].lambdaAtEdge.defined
    /\ functions[1].environment.nVariables = 2
    /\ EnvironmentOf(1) = NoEnvironment
    /\ ~functions[2].lambdaAtEdge.defined
    /\ EnvironmentOf(2).nVariables = 2
    /\ Len(validateLog) = 1

(***************************************************************************)
(* Properties of the execution role (SpecRole).                            *)
(***************************************************************************)

\* How often service s is named in the array svc.
Occurrences(svc, s) == Cardinality({k \in 1..Len(svc) : svc[k] = s})

\* How often notice n is in the notices of one call.
Emitted(notices, n) == Cardinality({k \in 1..Len(notices) : notices[k] = n})

\* The statements a call extended: those whose array differs afterwards.
Extended(before, after) ==
    {i \in 1..Len(before.Statement) :
        after.Statement[i].Service # before.Statement[i].Service}

\* C27: a call of _modifyExecutionRole on a template with the role leaves
\* every statement whose service array names lambda.amazonaws.com naming
\* edgelambda.amazonaws.com exactly once, on the first call and on every
\* later one; it changes a statement only by appending that service, logs
\* 'Updated' once per statement it extended, logs 'was unable to update'
\* exactly when it extended none, and never the 'no IAM role' warning.  A
\* call on a template without the role logs the 'no IAM role' warning alone
\* and leaves the template as it was.
RolePatched ==
    [][roleLog' # roleLog =>
          LET notices == roleLog'[Len(roleLog')]
          IN  IF ~role.defined
              THEN /\ notices = <<NoRoleWarning>>
                   /\ role' = role
              ELSE /\ role'.defined
                   /\ Len(role'.Statement) = Len(role.Statement)
                   /\ \A i \in 1..Len(role'.Statement) :
                         /\ role'.Statement[i].hasService = role.Statement[i].hasService
                         /\ (/\ role'.Statement[i].hasService
                             /\ Occurrences(role'.Statement[i].Service, LAMBDA_SERVICE) > 0)
                               => Occurrences(role'.Statement[i].Service, EDGE_SERVICE) = 1
                         /\ \/ role'.Statement[i].Service = role.Statement[i].Service
                            \/ role'.Statement[i].Service
                                  = role.Statement[i].Service \o <<EDGE_SERVICE>>
                   /\ Emitted(notices, UpdatedNotice)
                         = Cardinality(Extended(role, role'))
                   /\ Emitted(notices, UnableWarning)
                         = IF Extended(role, role') = {} THEN 1 ELSE 0
                   /\ Emitted(notices, NoRoleWarning) = 0
                   /\ Len(notices) = Emitted(notices, UpdatedNotice)
                                        + Emitted(notices, UnableWarning)]_vars

\* C27 witness: of two statements the first call extended the one naming
\* lambda.amazonaws.com and logged 'Updated' once; the second call extended
\* none and logged the warning.
RolePatchedWitness ==
    /\ role.defined
    /\ Len(role.Statement) = 2
    /\ role.Statement[1].Service = <<LAMBDA_SERVICE, EDGE_SERVICE>>
    /\ role.Statement[2].Service = <<"apigateway.amazonaws.com">>
    /\ roleLog = << <<UpdatedNotice>>, <<UnableWarning>> >>
    /\ role.policyStatements = 2

(***************************************************************************)
(* Properties of the declared count (SpecQuantity).                        *)
(***************************************************************************)

CountMatches(beh) == beh.Quantity = Len(beh.Items)

\* C28: a call of the merger that wrote a behavior's list leaves that
\* behavior's Quantity equal to the length of its list, whatever the
\* Quantity was before; so when every behavior's Quantity equalled its list
\* length before the call, every behavior's does after it.
QuantityRecomputed ==
    [][Len(changed') = Len(changed) + 1 =>
          LET before == AllBehaviors(distConfig)
              after  == AllBehaviors(distConfig')
              w      == writes'[Len(writes')]
          IN  /\ Len(after) = Len(before)
              /\ \A b \in 1..Len(after) :
                    (w[b] > 0 \/ after[b].Items # before[b].Items)
                        => CountMatches(after[b])
              /\ (\A b \in 1..Len(before) : CountMatches(before[b]))
                    => \A b \in 1..Len(after) : CountMatches(after[b])]_vars

\* C28 witness: the default behavior declared a count of 0 for a list of
\* one binding and got a second binding: its count is 2; the additional
\* behavior, whose binding was already the desired one, keeps its count.
QuantityRecomputedWitness ==
    /\ Len(changed) = 1
    /\ origConfig.DefaultCacheBehavior.Quantity = 0
    /\ Len(origConfig.DefaultCacheBehavior.Items) = 1
    /\ Len(distConfig.DefaultCacheBehavior.Items) = 2
    /\ distConfig.DefaultCacheBehavior.Quantity = 2
    /\ Len(distConfig.CacheBehaviors) = 1
    /\ writes[1][2] = 0
    /\ distConfig.CacheBehaviors[1] = origConfig.CacheBehaviors[1]
    /\ Len(distConfig.CacheBehaviors[1].Items) = 1

(***************************************************************************)
(* Properties of the waiter's progress signals and of its registry         *)
(* (SpecPass).                                                             *)
(***************************************************************************)

BeginNotice == "Waiting for CloudFront distribution to be deployed"
StatusNotice == "Distribution is now in state"

\* What a step appended to the log.
Logged == SubSeq(cliLog', Len(cliLog) + 1, Len(cliLog'))

LoggedOf(msg) == {k \in 1..Len(Logged) : Logged[k].msg = msg}

\* The wait settled in this step: its waitFor callback ran.
WaitSettles == waiter.outstanding /\ ~waiter'.outstanding

\* C29: the begin notice is logged at most once and before the first dot;
\* a dot is logged only by the timer of a wait that is outstanding, never
\* once the wait has settled; the status notice is logged once, by the step
\* that settles the wait successfully and by no other, with the status the
\* backend reports; the line is cleared only when a dot was printed.
ProgressSignalsOrdered ==
    [][/\ LoggedOf(BeginNotice) # {} =>
             /\ NoticesOf(BeginNotice) = {}
             /\ NoticesOf("printDot") = {}
             /\ Cardinality(LoggedOf(BeginNotice)) = 1
             /\ \A b \in LoggedOf(BeginNotice) : \A d \in LoggedOf("printDot") : b < d
             /\ \A b \in LoggedOf(BeginNotice) : Logged[b].arg = <<waiter.name>>
       /\ LoggedOf("printDot") # {} =>
             /\ waiter.outstanding
             /\ waiter'.outstanding
             /\ pc \in WaitingPcs
             /\ Cardinality(LoggedOf("printDot")) = 1
             /\ NoticesOf(BeginNotice) \cup LoggedOf(BeginNotice) # {}
             /\ UNCHANGED <<pc, requests, backend, data>>
       /\ LoggedOf(StatusNotice) # {} =>
             /\ WaitSettles
             /\ rejection' = NoError
             /\ NoticesOf(StatusNotice) = {}
             /\ Cardinality(LoggedOf(StatusNotice)) = 1
             /\ \A k \in LoggedOf(StatusNotice) :
                   Logged[k].arg = <<waiter.name, backend[waiter.Id].Status>>
       /\ (WaitSettles /\ rejection' = NoError) => LoggedOf(StatusNotice) # {}
       /\ (WaitSettles /\ rejection' # NoError) => Logged = <<>>
       /\ LoggedOf("consoleLog") # {} =>
             /\ WaitSettles
             /\ NoticesOf("printDot") # {}
             /\ Cardinality(LoggedOf("consoleLog")) = 1
             /\ \A c \in LoggedOf("consoleLog") : \A k \in LoggedOf(StatusNotice) : c < k]_vars

\* C29 witness: a wait logged the begin notice, two dots, the cleared line
\* and the status, in this order, and the pass went on.
ProgressSignalsOrderedWitness ==
    /\ Len(cliLog) >= 6
    /\ cliLog[1].msg = BeginNotice
    /\ cliLog[2].msg = "This can take awhile."
    /\ cliLog[3].msg = "printDot"
    /\ cliLog[4].msg = "printDot"
    /\ cliLog[5].msg = "consoleLog"
    /\ cliLog[6] = Notice(StatusNotice, <<waiter.name, "Deployed">>)
    /\ ~waiter.outstanding
    /\ pc = "resolved"

\* The identifiers a wait has registered: those a waitFor request was
\* issued for.
Registered == {requests[k].Id : k \in WaitForRequests}

\* C30: the registry is empty until the first wait; an identifier a wait
\* registered stays registered through every later step, the wait's
\* successful or failed completion included; and a later call of the waiter
\* for a registered identifier returns at once without a client or request.
RegistryMonotonic ==
    [][/\ waitCalls = <<>> => distIdIsWaiting = null
       /\ Registered # {} => distIdIsWaiting \in Registered
       /\ distIdIsWaiting # null => distIdIsWaiting' = distIdIsWaiting
       /\ \A id \in Registered : id \in {requests'[k].Id : k \in 1..Len(requests')}
       /\ (WaitCalled /\ CalledId \in Registered) =>
             /\ requests' = requests
             /\ clients' = clients
             /\ pc' \notin WaitingPcs]_vars

\* C30 witness: the wait before the update completed successfully, the
\* call after the update, for the same identifier, returned at once, and
\* the identifier is still registered when the pass has resolved.
RegistryMonotonicWitness ==
    /\ pc = "resolved"
    /\ Len(waitCalls) = 2
    /\ waitCalls[1].Id = waitCalls[2].Id
    /\ NoticesOf(StatusNotice) # {}
    /\ distIdIsWaiting = waitCalls[1].Id
    /\ Cardinality(WaitForRequests) = 1
    /\ ~waiter.outstanding

(***************************************************************************)
(* Properties of the whole reconcile pass (SpecReconcile) and of its       *)
(* repetition in a new process (SpecRetry).                                *)
(***************************************************************************)

ResolverFailed == fnsPromise.state = "rejected" \/ distsPromise.state = "rejected"

\* The requests that read or write a distribution.
DistributionRequests ==
    {k \in 1..Len(requests) :
        requests[k].op \in {"getDistribution", "updateDistribution", "waitFor"}}

\* C21: in a pass in which a resolver has failed (no stack, no output, no
\* resource, or a fault of its request) the hook's promise is rejected with
\* a resolver's error, the loop over the mapping has not been entered, the
\* updater and the waiter have not been called, no getDistribution,
\* updateDistribution or waitFor request has been issued and the backend
\* has accepted no update.
ResolutionFailureAborts ==
    ResolverFailed =>
        /\ rpc = "rejected"
        /\ rejection \in {fnsPromise.error, distsPromise.error} \ {NoError}
        /\ pc = "idle"
        /\ dists = <<>>
        /\ DistributionRequests = {}
        /\ waitCalls = <<>>
        /\ clients = 0
        /\ \A id \in DistributionIDs : backend[id].ETag = 1

\* C21 witness: the functions were resolved for two associations, and the
\* identifiers were not: the stack has no resource of the second name.
ResolutionFailureAbortsWitness ==
    /\ Len(pendingAssociations) = 2
    /\ fnsPromise.state = "fulfilled"
    /\ distsPromise.state = "rejected"
    /\ distsPromise.error = ResourceNotFound("OtherDist")
    /\ rejection = distsPromise.error
    /\ Len(requests) = 2

\* C23: the pass of the new process, after a pass that resolved, submits no
\* updateDistribution request.
RetryIdempotent ==
    run = 2 => UpdateRequests = {}

\* The distribution association i is declared for: the one of its
\* distributionID, or the stack's resource of its logical name.
TargetOf(i) ==
    IF pendingAssociations[i].distributionID # null
    THEN pendingAssociations[i].distributionID
    ELSE LET r == find(stack.StackResources, "LogicalResourceId",
                       pendingAssociations[i].distLogicalName)
         IN IF r = 0 THEN null ELSE stack.StackResources[r].PhysicalResourceId

\* The address association i resolves to: the value of its version output.
AddressOf(i) ==
    LET s == find(stack.Stacks, "StackName", getStackName)
        o == find(stack.Stacks[s].Outputs, "OutputKey",
                  pendingAssociations[i].fnCurrentVersionOutputName)
    IN stack.Stacks[s].Outputs[o].OutputValue

\* C24: when the pass has resolved, every behavior of the distribution of
\* every pending association holds that association's event type bound to
\* its function's address.
Converged ==
    pc = "resolved" =>
        \A i \in 1..Len(pendingAssociations) :
            /\ TargetOf(i) # null
            /\ \A b \in 1..Len(AllBehaviors(backend[TargetOf(i)].DistributionConfig)) :
                  \E k \in 1..Len(AllBehaviors(backend[TargetOf(i)].DistributionConfig)[b].Items) :
                     AllBehaviors(backend[TargetOf(i)].DistributionConfig)[b].Items[k]
                        = [EventType |-> pendingAssociations[i].eventType,
                           LambdaFunctionARN |-> AddressOf(i)]

(***************************************************************************)
(* Event types of a behavior's list (SpecMerge).                           *)
(***************************************************************************)

\* The bindings of event type t in a list.
BindingsOfType(items, t) == {k \in 1..Len(items) : items[k].EventType = t}

\* C38: a configuration in which no behavior's list names an event type
\* twice is in that state after every call of the merger, for every desired
\* list; and after a call every behavior holds exactly one binding of each
\* desired event type, with the address of the last desired binding of that
\* type.
UniquenessPreserved ==
    \A b \in 1..Len(AllBehaviors(distConfig)) :
        LET items == AllBehaviors(distConfig)[b].Items IN
        /\ UniqueTypes(ItemsBefore(b)) => UniqueTypes(items)
        /\ Len(changed) >= 1 =>
              \A t \in DesiredTypes(fns) :
                 /\ Cardinality(BindingsOfType(items, t)) = 1
                 /\ \A k \in BindingsOfType(items, t) :
                       items[k].LambdaFunctionARN = LastAddr(fns, t)

\* C38 witness: the desired list names viewer-request twice, with two
\* addresses; a behavior that held the last one's address before the call
\* holds one viewer-request binding, with that address, after it, and
\* another behavior, which held none, got one.
UniquenessPreservedWitness ==
    /\ Len(changed) = 1
    /\ Len(fns) = 2
    /\ fns[1].eventType = "viewer-request"
    /\ fns[2].eventType = "viewer-request"
    /\ fns[1].fnARN # fns[2].fnARN
    /\ Len(AllBehaviors(distConfig)) = 2
    /\ ItemsBefore(1) = <<[EventType |-> "viewer-request", LambdaFunctionARN |-> fns[2].fnARN]>>
    /\ AllBehaviors(distConfig)[1].Items = ItemsBefore(1)
    /\ ItemsBefore(2) = <<>>
    /\ AllBehaviors(distConfig)[2].Items = ItemsBefore(1)
    /\ changed[1]

(***************************************************************************)
(* Properties of the pass's updates and the backend's deployments          *)
(* (SpecPass).                                                             *)
(***************************************************************************)

\* This step submits an updateDistribution request.
UpdateSubmitted ==
    /\ Len(requests') = Len(requests) + 1
    /\ Last(requests').op = "updateDistribution"

\* The distributions this pass has updated so far.
UpdatedSoFar == {requests[k].Id : k \in UpdateRequests}

\* C31: when an updateDistribution request is submitted for a distribution,
\* every other distribution this pass updated before is deployed.
SingleInFlightUpdate ==
    [][UpdateSubmitted =>
          \A id \in UpdatedSoFar \ {Last(requests').Id} :
              backend[id].Status = "Deployed"]_vars

\* This step logs 'Done updating distribution'.
DoneLogged ==
    /\ Len(cliLog') = Len(cliLog) + 1
    /\ Last(cliLog').msg = "Done updating distribution"

\* C32: when 'Done updating distribution' is logged for an entry, the
\* entry's distribution, which this pass updated, is deployed.
DoneAfterDeployed ==
    [][DoneLogged => backend[CurrentDist.distributionID].Status = "Deployed"]_vars

(***************************************************************************)
(* Termination of a pass without faults (SpecPassLive).                    *)
(***************************************************************************)

\* C33: a pass in which no request fails and every deployment finishes
\* resolves: the loop gets past the last entry of the mapping.
PassTerminates == <>(pc = "resolved" /\ distIndex = Len(dists) + 1)

\* C34: an updateDistribution request is submitted only with a response in
\* hand, that of getDistribution or of a completed wait for the entry's
\* distribution, whose status is 'Deployed'; the request carries that
\* response's token and the merge of that response's configuration.
UpdateOnlyWhenDeployed ==
    [][UpdateSubmitted =>
          /\ data.defined
          /\ data.Status = "Deployed"
          /\ Last(requests').Id = CurrentDist.distributionID
          /\ Last(requests').IfMatch = data.ETag
          /\ Last(requests').DistributionConfig = data'.DistributionConfig
          /\ \A b \in 1..Len(AllBehaviors(data.DistributionConfig)) :
                \A i \in 1..Len(AllBehaviors(data.DistributionConfig)[b].Items) :
                    AllBehaviors(data'.DistributionConfig)[b].Items[i].EventType
                       = AllBehaviors(data.DistributionConfig)[b].Items[i].EventType]_vars

\* C34 witness: the distribution was read while deploying, the wait for it
\* completed, and the update was submitted with the wait's response.
UpdateOnlyWhenDeployedWitness ==
    /\ pc = "updateDistribution"
    /\ Len(GetRequests) = 1
    /\ Cardinality(WaitForRequests) = 1
    /\ waiter.Id = CurrentDist.distributionID
    /\ ~waiter.outstanding
    /\ waiter.dots = 1
    /\ data.Status = "Deployed"
    /\ Last(requests).IfMatch = 1

\* C39: a step in which the updater fails (its read, its wait or its
\* update is rejected, or it throws) rejects the pass with that error,
\* issues no request and leaves the loop at the entry; a read or an update
\* that the backend answers without a response or an acceptance ends in
\* that rejection and nowhere else; once the pass is rejected no request is
\* issued, nothing is logged, the loop does not move to another entry, the
\* error stays, and the backend keeps every configuration it accepted.
FailFast ==
    [][/\ (pc # "rejected" /\ pc' = "rejected") =>
             /\ rejection = NoError
             /\ rejection' # NoError
             /\ rejection'.kind
                   = CASE pc = "getDistribution" -> "BackendFault"
                       [] pc \in WaitingPcs -> waiter'.err.kind
                       [] pc = "updateDistribution" -> "PreconditionFailed"
                       [] OTHER -> "TypeError"
             /\ requests' = requests
             /\ distIndex' = distIndex
       /\ (pc \in {"getDistribution", "updateDistribution"} /\ requests' = requests
              /\ \A id \in DistributionIDs : backend'[id].ETag = backend[id].ETag)
             => pc' \in {pc, "rejected", "fetched"}
       /\ pc = "rejected" =>
             /\ pc' = "rejected"
             /\ rejection' = rejection
             /\ requests' = requests
             /\ cliLog' = cliLog
             /\ distIndex' = distIndex
             /\ \A id \in DistributionIDs :
                   /\ backend'[id].DistributionConfig = backend[id].DistributionConfig
                   /\ backend'[id].ETag = backend[id].ETag]_vars

\* C39 witness: the first entry's update was accepted and its wait failed;
\* the pass is rejected with the wait's error, the backend keeps the
\* updated configuration, and no request was issued for the second entry's
\* distribution.
FailFastWitness ==
    /\ pc = "rejected"
    /\ Len(dists) = 2
    /\ distIndex = 1
    /\ dists[1].distributionID # dists[2].distributionID
    /\ rejection = waiter.err
    /\ rejection.kind = "ResourceNotReady"
    /\ backend[dists[1].distributionID].ETag = 2
    /\ backend[dists[1].distributionID].DistributionConfig
          = requests[CHOOSE k \in UpdateRequests : TRUE].DistributionConfig
    /\ \A k \in 1..Len(requests) : requests[k].Id # dists[2].distributionID

(***************************************************************************)
(* Associations that carry a distributionID (SpecResolve).                 *)
(***************************************************************************)

\* The associations declared with a distributionID, and those without.
WithId == {i \in PendingIndexes : pendingAssociations[i].distributionID # null}
WithoutId == PendingIndexes \ WithId

\* C36: an association declared with a distributionID has, in a fulfilled
\* mapping, the entry of its function with that identifier; and a
\* resource-not-found rejection names the distribution of an association
\* declared without one.
RawIdentifierKept ==
    /\ distsPromise.state = "fulfilled" =>
          \A i \in WithId :
             LET e == find(distsPromise.value, "key", pendingAssociations[i].fnLogicalName)
             IN /\ e # 0
                /\ distsPromise.value[e].distributionID
                      = pendingAssociations[i].distributionID
    /\ (distsPromise.state = "rejected" /\ distsPromise.error.kind = "ResourceNotFound") =>
          \E j \in WithoutId :
             distsPromise.error = ResourceNotFound(pendingAssociations[j].distLogicalName)

(***************************************************************************)
(* Which bindings a pass writes to which distribution, and how often       *)
(* (SpecReconcile).                                                        *)
(***************************************************************************)

\* The bindings a configuration holds, in any behavior.
BindingsIn(cfg) ==
    UNION {{AllBehaviors(cfg)[b].Items[k] : k \in 1..Len(AllBehaviors(cfg)[b].Items)} :
              b \in 1..Len(AllBehaviors(cfg))}

\* The bindings the distributions may hold before the pass.
HeldBefore == UNION {BindingsIn(cfg) : cfg \in PassConfigs}

\* The bindings declared for the distribution id.
DeclaredFor(id) ==
    {[EventType |-> pendingAssociations[i].eventType, LambdaFunctionARN |-> AddressOf(i)] :
        i \in {j \in PendingIndexes : TargetOf(j) = id}}

\* C35: every binding of a configuration submitted for a distribution was
\* held by a distribution before the pass or is declared by an association
\* whose distribution (its distributionID, or the stack resource of its
\* logical name) is that one.
BindingsIsolated ==
    \A k \in UpdateRequests :
        BindingsIn(requests[k].DistributionConfig)
            \subseteq HeldBefore \cup DeclaredFor(requests[k].Id)

\* C37: a pass submits at most one updateDistribution request per
\* distribution identifier.
OneUpdatePerDistribution ==
    \A id \in DistributionIDs :
        Cardinality({k \in UpdateRequests : requests[k].Id = id}) <= 1

====
